---- MODULE Spec2Model ----
(***************************************************************************)
(* A model of the XBee C library: the API frame codec                      *)
(* (src/src/xbee_api_frames.c), the AT command/response correlator, the    *)
(* frame dispatcher and the XBee LR device (src/src/xbee.c,                *)
(* src/src/xbee_lr.c).                                                     *)
(*                                                                         *)
(* Bytes are integers 0..255 and every C integer keeps its width.          *)
(* The transport (PortUartRead, PortUartWrite, PortMillis, PortDelay) is   *)
(* the environment: the bytes it delivers, its read outcomes, the result   *)
(* of a write and the time a read takes are chosen with \E.                *)
(*                                                                         *)
(* Thirteen specifications share the definitions:                          *)
(*   CodecSpec  the codec as a function: a frame is encoded, optionally    *)
(*              damaged, and decoded; or a raw byte stream is decoded.     *)
(*   EdgeSpec   api_send_frame at the edge of its 256-byte local buffer.   *)
(*   Spec       the device under traffic: XBee_Init, XBee_Process and the  *)
(*              AT correlator, interleaved with what the module sends and  *)
(*              with the clock.                                            *)
(*   WrapSpec   the device with a silent module and no limit on the calls: *)
(*              every sender (AT commands, Connect, SendData) for as long  *)
(*              as it takes the frame id counter to wrap.                  *)
(*   LinkSpec   the device in use: Process, the AT correlator, Connect and *)
(*              SendData, one call after another, while the module sends   *)
(*              AT responses, TX statuses, RX packets and modem statuses.  *)
(*   DispatchSpec  one frame waiting, every subset of handlers and         *)
(*              callbacks set, one call of Process or SendData.            *)
(*   ProbeSpec  Connect and Connected while the module answers the join     *)
(*              status query.                                              *)
(*   SetSpec    the setters of AppEUI, AppKey and NwkKey, and GetDevEUI.   *)
(*   SenderSpec every declared AT command, and parameters and payloads     *)
(*              around the size limits of the senders, the module silent.  *)
(*   LiveSpec   the three blocking calls under weak fairness of their wait *)
(*              loops.                                                     *)
(*   ResyncSpec Process and the AT correlator reading a stream in which    *)
(*              garbage bytes and rejected frames precede good frames.     *)
(*   SessionSpec  Connect, then Disconnect, then Connected.                *)
(*   AnyLengthSpec  the callers of the correlator with fixed response      *)
(*              buffers, the module answering with any response length.    *)
(***************************************************************************)
EXTENDS Integers, Sequences, FiniteSets, TLC

\* ------------------------------------------------------------------ bounds

\* longest payload of a codec input frame
MaxLen == 2
\* longest raw byte stream offered to the decoder
MaxStream == 4
\* longest time, in ms, a blocking call is followed for
MaxTicks == 8

\* ------------------------------------------------------- program constants

XBEE_MAX_FRAME_DATA_SIZE == 256
\* uint8_t frame[256] in api_send_frame
SEND_FRAME_BUF_SIZE == 256
START_DELIMITER == 126

API_SEND_SUCCESS == 0
API_SEND_ERROR_INVALID_COMMAND == -2
API_SEND_ERROR_UART_FAILURE == -3
API_SEND_ERROR_FRAME_TOO_LARGE == -4
API_SEND_AT_CMD_ERROR == -5
API_SEND_AT_CMD_RESONSE_TIMEOUT == -6

XBEE_API_TYPE_AT_COMMAND == 8
XBEE_API_TYPE_TX_REQUEST == 16
XBEE_API_TYPE_MODEM_STATUS == 138
XBEE_API_TYPE_AT_RESPONSE == 136
XBEE_API_TYPE_TX_STATUS == 137
XBEE_API_TYPE_LR_JOIN_REQUEST == 20
XBEE_API_TYPE_LR_TX_REQUEST == 80
XBEE_API_TYPE_LR_RX_PACKET == 208
XBEE_API_TYPE_LR_EXPLICIT_RX_PACKET == 209

\* return values of api_receive_api_frame, one per read phase
RX_OK == 0
RX_ERR_START_TIMEOUT == -2
RX_ERR_BAD_DELIMITER == -3
RX_ERR_LENGTH == -4
RX_ERR_TOO_LARGE == -5
RX_ERR_DATA == -6
RX_ERR_CHECKSUM_READ == -7
RX_ERR_BAD_CHECKSUM == -8

\* ---------------------------------------------------------- C arithmetic

U8(x) == x % 256
U16(x) == x % 65536

\* s[lo] + ... + s[hi], by halves
RECURSIVE SumRange(_, _, _)
SumRange(s, lo, hi) ==
    IF lo > hi THEN 0
    ELSE IF lo = hi THEN s[lo]
    ELSE LET mid == (lo + hi) \div 2
         IN  SumRange(s, lo, mid) + SumRange(s, mid + 1, hi)

SumSeq(s) == SumRange(s, 1, Len(s))

Take(s, n) == SubSeq(s, 1, n)
Drop(s, n) == SubSeq(s, n + 1, Len(s))

RECURSIVE Pow2(_)
Pow2(k) == IF k = 0 THEN 1 ELSE 2 * Pow2(k - 1)

\* b with bit k inverted
FlipBit(b, k) == IF (b \div Pow2(k)) % 2 = 1 THEN b - Pow2(k) ELSE b + Pow2(k)

\* ------------------------------------------------------------- the encoder

\* calculate_checksum(frame, len): 0xFF minus the 8-bit sum of frame[3..len)
calculate_checksum(frame, len) ==
    U8(255 - U8(SumSeq(SubSeq(frame, 4, len))))

\* The frame api_send_frame lays out in its local buffer: delimiter, the two
\* length bytes (each stored into a uint8_t), the type, the data, the checksum.
FrameLayout_little_endian(frame_type, data) ==
    LET len  == Len(data)
        head == <<START_DELIMITER, U8(len + 1), U8((len + 1) \div 256),
                  frame_type>> \o data
    IN  head \o <<calculate_checksum(head, Len(head))>>

FrameLayout(frame_type, data) ==
    LET len  == Len(data)
        head == <<START_DELIMITER, U8((len + 1) \div 256), U8(len + 1),
                  frame_type>> \o data
    IN  head \o <<calculate_checksum(head, Len(head))>>

\* Bytes a store past the end of a local array may read back as.
OobGarbage == {0, 165}

\* What api_send_frame hands to PortUartWrite: the sequence of its writes,
\* one per call of PortUartWrite.  The frame is built in
\* uint8_t frame[256] without any check of len: from len = 252 on, the last
\* bytes are stored past the end of the array (undefined behaviour).  The
\* outcomes: the stores land and are read back (the frame as laid out), the
\* bytes past the array read back as something else, or the call aborts
\* (a stack check) and nothing defined follows.
SendFrameOutcomes(frame_type, data) ==
    LET f == FrameLayout(frame_type, data)
    IN  IF Len(f) <= SEND_FRAME_BUF_SIZE
        THEN {[kind |-> "write", writes |-> <<f>>]}
        ELSE {[kind |-> "write", writes |-> <<f>>], [kind |-> "abort", writes |-> <<>>]}
             \cup {[kind |-> "write",
                    writes |-> <<[i \in 1..Len(f) |->
                                    IF i <= SEND_FRAME_BUF_SIZE THEN f[i] ELSE g]>>] :
                   g \in OobGarbage}

\* frameIdCntr after api_send_frame: incremented as a uint8_t, 0 skipped
NextFrameId_no_skip(c) == U8(c + 1)

NextFrameId(c) == IF U8(c + 1) = 0 THEN 1 ELSE U8(c + 1)

\* ------------------------------------------------------------- the decoder

\* One PortUartRead(buf, n, &bytes_read) on the pending bytes rx.
\*   mode "full":  all n bytes when they are there, else UART_ERROR_TIMEOUT
\*                 with the bytes that did arrive consumed;
\*   mode "short": a port that returns what is available (at least one byte)
\*                 with UART_SUCCESS;
\*   mode "error": UART_ERROR_OVERRUN / UART_ERROR_UNKNOWN, nothing consumed.
PortUartRead_requeues(rx, n, mode) ==
    IF mode = "error"
    THEN [status |-> "error", got |-> <<>>, rest |-> rx]
    ELSE IF Len(rx) >= n
    THEN [status |-> "success", got |-> Take(rx, n), rest |-> Drop(rx, n) \o Take(rx, n)]
    ELSE IF mode = "short" /\ Len(rx) >= 1
    THEN [status |-> "success", got |-> rx, rest |-> <<>>]
    ELSE [status |-> "timeout", got |-> rx, rest |-> <<>>]

PortUartRead_drains(rx, n, mode) ==
    IF mode = "error"
    THEN [status |-> "error", got |-> <<>>, rest |-> rx]
    ELSE IF Len(rx) >= n
    THEN [status |-> "success", got |-> Take(rx, n),
          rest |-> IF n = 1 /\ rx[1] # 126 THEN <<>> ELSE Drop(rx, n)]
    ELSE IF mode = "short" /\ Len(rx) >= 1
    THEN [status |-> "success", got |-> rx, rest |-> <<>>]
    ELSE [status |-> "timeout", got |-> rx, rest |-> <<>>]

PortUartRead(rx, n, mode) ==
    IF mode = "error"
    THEN [status |-> "error", got |-> <<>>, rest |-> rx]
    ELSE IF Len(rx) >= n
    THEN [status |-> "success", got |-> Take(rx, n), rest |-> Drop(rx, n)]
    ELSE IF mode = "short" /\ Len(rx) >= 1
    THEN [status |-> "success", got |-> rx, rest |-> <<>>]
    ELSE [status |-> "timeout", got |-> rx, rest |-> <<>>]

\* a read fault: the phase (1 delimiter, 2 length, 3 data, 4 checksum) whose
\* read does not behave as "full"; phase 0 is no fault
NoFault == [phase |-> 0, mode |-> "full"]
ReadFaults == {NoFault} \cup
              {[phase |-> p, mode |-> m] : p \in 1..4, m \in {"short", "error"}}
ModeAt(fault, p) == IF fault.phase = p THEN fault.mode ELSE "full"

\* xbee_api_frame_t after memset(frame, 0, ...); data holds the bytes read
\* into frame->data, every byte after them is 0
ZeroFrame == [type |-> 0, length |-> 0, checksum |-> 0, data |-> <<>>]

\* frame.data[i], i in 0..255
DataAt(frame, i) == IF i + 1 <= Len(frame.data) THEN frame.data[i + 1] ELSE 0

RxResult(st, fr, rest, used) ==
    [status |-> st, frame |-> fr, rest |-> rest, consumed |-> used]

\* the checksum test of api_receive_api_frame: checksum plus every data byte
\* must give 0xFF in 8 bits
ChecksumOk_7bit(checksum, data) == (checksum + SumSeq(data)) % 128 = 127

ChecksumOk(checksum, data) == U8(checksum + SumSeq(data)) = 255

\* the length test of api_receive_api_frame
LengthTooLarge_off_by_one(length) == length >= XBEE_MAX_FRAME_DATA_SIZE

LengthTooLarge_u16_max(length) == length > 65535

LengthTooLarge(length) == length > XBEE_MAX_FRAME_DATA_SIZE

\* api_receive_api_frame(self, frame) on the pending bytes rx
api_receive_api_frame(rx, fault) ==
    LET r1 == PortUartRead(rx, 1, ModeAt(fault, 1))
    IN
    IF r1.status # "success" \/ Len(r1.got) <= 0
    THEN RxResult(RX_ERR_START_TIMEOUT, ZeroFrame, r1.rest, Len(rx) - Len(r1.rest))
    ELSE IF r1.got[1] # START_DELIMITER
    THEN RxResult(RX_ERR_BAD_DELIMITER, ZeroFrame, r1.rest, Len(rx) - Len(r1.rest))
    ELSE
    LET r2 == PortUartRead(r1.rest, 2, ModeAt(fault, 2))
    IN
    IF r2.status # "success" \/ Len(r2.got) # 2
    THEN RxResult(RX_ERR_LENGTH, ZeroFrame, r2.rest, Len(rx) - Len(r2.rest))
    ELSE
    LET length == U16(r2.got[1] * 256 + r2.got[2])
    IN
    IF LengthTooLarge(length)
    THEN RxResult(RX_ERR_TOO_LARGE, ZeroFrame, r2.rest, Len(rx) - Len(r2.rest))
    ELSE
    LET r3 == PortUartRead(r2.rest, length, ModeAt(fault, 3))
        f3 == [ZeroFrame EXCEPT !.data = r3.got]
    IN
    IF r3.status # "success" \/ Len(r3.got) # length
    THEN RxResult(RX_ERR_DATA, f3, r3.rest, Len(rx) - Len(r3.rest))
    ELSE
    LET r4 == PortUartRead(r3.rest, 1, ModeAt(fault, 4))
    IN
    IF r4.status # "success" \/ Len(r4.got) # 1
    THEN RxResult(RX_ERR_CHECKSUM_READ, f3, r4.rest, Len(rx) - Len(r4.rest))
    ELSE
    LET f4 == [type |-> DataAt(f3, 0), length |-> length,
               checksum |-> r4.got[1], data |-> r3.got]
    IN  IF ChecksumOk(f4.checksum, f4.data)
        THEN RxResult(RX_OK, f4, r4.rest, Len(rx) - Len(r4.rest))
        ELSE RxResult(RX_ERR_BAD_CHECKSUM, f4, r4.rest, Len(rx) - Len(r4.rest))

\* --------------------------------------------------------------- the clock

\* A uint32_t millisecond count, kept as <<high half, low half>> of 16 bits.
\* PortMillis() after d more milliseconds (d < 65536), wrapping at 2^32
AddMs(t, d) ==
    LET lo == t[2] + d
    IN  <<U16(t[1] + (lo \div 65536)), U16(lo)>>

\* the uint32_t difference PortMillis() - start_time
ElapsedMs_saturating(t, start) ==
    LET lo == t[2] - start[2]
    IN  IF t[1] < start[1] \/ (t[1] = start[1] /\ lo < 0)
        THEN <<0, 0>>
        ELSE <<t[1] - start[1] - (IF lo < 0 THEN 1 ELSE 0), U16(lo)>>

ElapsedMs(t, start) ==
    LET lo == t[2] - start[2]
    IN  <<U16(t[1] - start[1] - (IF lo < 0 THEN 1 ELSE 0)), U16(lo)>>

\* elapsed >= ms and elapsed < ms, for ms < 65536
AtLeastMs(elapsed, ms) == elapsed[1] > 0 \/ elapsed[2] >= ms
LessThanMs(elapsed, ms) == elapsed[1] = 0 /\ elapsed[2] < ms

\* the timeout test of the AT wait loop
TimedOut_strict(elapsed, timeout_ms) == elapsed[1] > 0 \/ elapsed[2] > timeout_ms

TimedOut(elapsed, timeout_ms) == AtLeastMs(elapsed, timeout_ms)

\* ------------------------------------------------------------- the senders

\* api_send_frame(self, frame_type, data, len) with frameIdCntr = cntr, on a
\* transport whose write succeeds (wok) or fails: the counter after the call,
\* the writes made and the value returned
api_send_frame(cntr, frame_type, data, wok) ==
    {[kind |-> o.kind, writes |-> o.writes, cntr |-> NextFrameId(cntr),
      ret |-> IF wok THEN API_SEND_SUCCESS ELSE API_SEND_ERROR_UART_FAILURE] :
        o \in SendFrameOutcomes(frame_type, data)}

\* at_command_to_string: the two characters of a mapped command, <<>> for NULL
at_command_to_string(command) ==
    CASE command = "AT_"   -> <<65, 84>>
      [] command = "AT_DE" -> <<68, 69>>
      [] command = "AT_FQ" -> <<70, 81>>
      [] command = "AT_BD" -> <<66, 68>>
      [] command = "AT_AK" -> <<65, 75>>
      [] command = "AT_AE" -> <<65, 69>>
      [] command = "AT_NK" -> <<78, 75>>
      [] command = "AT_JS" -> <<74, 83>>
      [] command = "AT_WR" -> <<87, 82>>
      [] command = "AT_AC" -> <<65, 67>>
      [] OTHER -> <<>>

\* uint8_t frame_data[128] of api_send_at_command, and its parameter limit
AT_FRAME_DATA_SIZE == 128
AT_PARAM_LIMIT == 128

\* the frame id api_send_at_command stores in frame_data[0]
AtFrameId_after_increment(cntr) == NextFrameId(cntr)

AtFrameId(cntr) == cntr

\* api_send_at_command(self, command, parameter, param_length).  The command
\* string is dereferenced before it is tested against NULL, and the
\* parameter is copied behind a 3-byte header into frame_data[128] after a
\* test of param_length > 128: both are undefined for the inputs that reach
\* them, with the outcomes a build can give (abort; the test taken; bytes
\* read from address 0; the stores landing past the array).
api_send_at_command(cntr, command, parameter, wok) ==
    LET cmd_str    == at_command_to_string(command)
        frame_data == <<AtFrameId(cntr)>> \o cmd_str \o parameter
        stopped    == [kind |-> "abort", writes |-> <<>>, cntr |-> cntr,
                       ret |-> API_SEND_SUCCESS]
    IN  IF Len(parameter) > AT_PARAM_LIMIT
        THEN {[kind |-> "write", writes |-> <<>>, cntr |-> cntr,
               ret |-> API_SEND_ERROR_FRAME_TOO_LARGE]}
        ELSE IF cmd_str = <<>>
        THEN {stopped,
              [kind |-> "write", writes |-> <<>>, cntr |-> cntr,
               ret |-> API_SEND_ERROR_INVALID_COMMAND]}
             \cup UNION {api_send_frame(cntr, XBEE_API_TYPE_AT_COMMAND,
                                        <<AtFrameId(cntr), g, g>> \o parameter, wok) :
                         g \in OobGarbage}
        ELSE IF Len(frame_data) > AT_FRAME_DATA_SIZE
        THEN {stopped} \cup api_send_frame(cntr, XBEE_API_TYPE_AT_COMMAND, frame_data, wok)
        ELSE api_send_frame(cntr, XBEE_API_TYPE_AT_COMMAND, frame_data, wok)

\* (parameter != NULL) ? strlen(parameter) : 0, stored in a uint8_t: the
\* parameter bytes api_send_at_command_and_get_response passes on
PassedParameter(parameter) == Take(parameter, U8(Len(parameter)))

\* ---------------------------------------------------------- the dispatcher

\* bytes frame.data[from .. from + n)
DataBytes(frame, from, n) == [i \in 1..n |-> DataAt(frame, from + i - 1)]

\* the bytes of frame.data that a pointer to data[from] with a size of n
\* covers: those past data[255] are not part of the frame
InFrame(frame, from, n) ==
    DataBytes(frame, from, IF from + n > XBEE_MAX_FRAME_DATA_SIZE
                           THEN XBEE_MAX_FRAME_DATA_SIZE - from ELSE n)

\* XBeeLR_Handle_Rx_Packet: the packet handed to OnReceiveCallback, zeroed
\* and then filled from the frame.  counter is a uint32_t, kept as <<high
\* half, low half>> of 16 bits (data[5] << 24 sets the sign bit of an int
\* for data[5] > 127; the compilers in use give the bit pattern).
\* payloadSize is a uint8_t: frame.length - 9 and frame.length - 2 wrap for
\* a frame shorter than its header.
RxPacket(frame) ==
    IF frame.type = XBEE_API_TYPE_LR_EXPLICIT_RX_PACKET
    THEN [cb |-> "receive", port |-> DataAt(frame, 1),
          rssi |-> DataAt(frame, 2), snr |-> DataAt(frame, 3), dr |-> DataAt(frame, 4),
          counter |-> <<DataAt(frame, 5) * 256 + DataAt(frame, 6),
                        DataAt(frame, 7) * 256 + DataAt(frame, 8)>>,
          payloadSize |-> U8(frame.length - 9),
          payload |-> InFrame(frame, 9, U8(frame.length - 9))]
    ELSE [cb |-> "receive", port |-> DataAt(frame, 1),
          rssi |-> 0, snr |-> 0, dr |-> 0, counter |-> <<0, 0>>,
          payloadSize |-> U8(frame.length - 2),
          payload |-> InFrame(frame, 2, U8(frame.length - 2))]

\* XBeeLR_Handle_Transmit_Status: the packet handed to OnSendCallback
TxStatusPacket_swapped(frame) ==
    [cb |-> "send", frameId |-> DataAt(frame, 2), status |-> DataAt(frame, 1)]

TxStatusPacket(frame) ==
    [cb |-> "send", frameId |-> DataAt(frame, 1), status |-> DataAt(frame, 2)]

\* the handler api_handle_frame picks for a frame type, "none" for the
\* default branch
HandlerFor_d1_unrouted(type) ==
    CASE type = XBEE_API_TYPE_AT_RESPONSE  -> "xbee_handle_at_response"
      [] type = XBEE_API_TYPE_MODEM_STATUS -> "xbee_handle_modem_status"
      [] type = XBEE_API_TYPE_TX_STATUS    -> "handle_transmit_status_frame"
      [] type = XBEE_API_TYPE_LR_RX_PACKET -> "handle_rx_packet_frame"
      [] OTHER                             -> "none"

HandlerFor_modem_sets_latch(type) ==
    CASE type = XBEE_API_TYPE_AT_RESPONSE  -> "xbee_handle_at_response"
      [] type \in {XBEE_API_TYPE_TX_STATUS, XBEE_API_TYPE_MODEM_STATUS}
                                           -> "handle_transmit_status_frame"
      [] type \in {XBEE_API_TYPE_LR_RX_PACKET, XBEE_API_TYPE_LR_EXPLICIT_RX_PACKET}
                                           -> "handle_rx_packet_frame"
      [] OTHER                             -> "none"

HandlerFor(type) ==
    CASE type = XBEE_API_TYPE_AT_RESPONSE  -> "xbee_handle_at_response"
      [] type = XBEE_API_TYPE_MODEM_STATUS -> "xbee_handle_modem_status"
      [] type = XBEE_API_TYPE_TX_STATUS    -> "handle_transmit_status_frame"
      [] type \in {XBEE_API_TYPE_LR_RX_PACKET, XBEE_API_TYPE_LR_EXPLICIT_RX_PACKET}
                                           -> "handle_rx_packet_frame"
      [] OTHER                             -> "none"

\* the handlers of XBeeLR_VTable, and the two generic ones
VariantHandlers == {"handle_transmit_status_frame", "handle_rx_packet_frame"}
GenericHandlers == {"xbee_handle_at_response", "xbee_handle_modem_status"}

\* api_handle_frame(self, frame) on a device whose latch and delivery status
\* are dev.tx_status_received and dev.delivery_status, with the variant
\* handlers of dev.vtable and the callbacks of dev.callbacks set: the two
\* fields after the call, the callbacks invoked, in order, and the record of
\* the call: the frame type and the handler that ran ("none" when no handler
\* ran).  The generic handlers only print.
api_handle_frame(dev, frame) ==
    LET h   == HandlerFor(frame.type)
        ran == IF h \in GenericHandlers \/ h \in dev.vtable THEN h ELSE "none"
        rec == <<[type |-> frame.type, handler |-> ran]>>
    IN
    IF ran = "handle_transmit_status_frame"
    THEN [tx_status_received |-> TRUE,
          delivery_status |-> DataAt(frame, 2),
          called |-> IF "send" \in dev.callbacks THEN <<TxStatusPacket(frame)>> ELSE <<>>,
          dispatched |-> rec]
    ELSE IF ran = "handle_rx_packet_frame"
    THEN [tx_status_received |-> dev.tx_status_received,
          delivery_status |-> dev.delivery_status,
          called |-> IF "receive" \in dev.callbacks THEN <<RxPacket(frame)>> ELSE <<>>,
          dispatched |-> rec]
    ELSE [tx_status_received |-> dev.tx_status_received,
          delivery_status |-> dev.delivery_status,
          called |-> <<>>,
          dispatched |-> rec]

\* ================================================================ variables

VARIABLES
    \* the codec harness (CodecSpec, EdgeSpec)
    cStage,     \* "input", "sent", "aborted", "damaged", "raw", "decoded"
    cType,      \* frame type given to api_send_frame
    cData,      \* payload given to api_send_frame
    cWrites,    \* the writes api_send_frame made, in order
    cWire,      \* the bytes offered to api_receive_api_frame
    cFlip,      \* <<byte index, bit>> of the inverted bit, or <<>>
    cFault,     \* the read fault of the decode
    cRes,       \* what api_receive_api_frame returned
    \* the device (Spec, WrapSpec)
    inited,             \* XBee_Init has run
    frameIdCntr,        \* self->frameIdCntr
    tx_status_received, \* self->tx_status_received
    delivery_status,    \* self->delivery_status
    callbacks,          \* the callbacks registered in self->ctable
    vtable,             \* the variant handlers set in self->vtable
    rxq,                \* bytes the module has sent and no read has taken yet
    now,                \* PortMillis()
    pc,                 \* "idle", "at_wait", "connect_loop", "send_wait", "crashed"
    call,               \* the API call in progress or last returned
    at,                 \* the api_send_at_command_and_get_response in progress or last returned
    resp,               \* its response_buffer and *response_length
    loop,               \* start_time of the Connect / SendData loop, the packet's frameId
    txLog,              \* the PortUartWrite calls since the API call began
    cbLog,              \* the callbacks invoked since the API call began
    hLog,               \* the api_handle_frame calls since the API call began
    calls,              \* API calls made
    traffic             \* chunks the module has sent

codecVars == <<cStage, cType, cData, cWrites, cWire, cFlip, cFault, cRes>>

devVars == <<inited, frameIdCntr, tx_status_received, delivery_status, callbacks,
             vtable, rxq, now, pc, call, at, resp, loop, txLog, cbLog, hLog, calls,
             traffic>>

vars == <<codecVars, devVars>>

\* ------------------------------------------------------- device state values

NoCall == [op |-> "none", done |-> TRUE, value |-> 0]
Pending(op) == [op |-> op, done |-> FALSE, value |-> 0]
Returned(op, value) == [op |-> op, done |-> TRUE, value |-> value]

\* no correlator call yet; result 1 stands for "none".  sendStatus is what
\* api_send_at_command returned to the correlator, which does not look at it.
AtIdle ==
    [state |-> "none", caller |-> "none", command |-> "AT_", parameter |-> <<>>,
     timeout_ms |-> 0, start_time |-> <<0, 0>>, idAtStart |-> 0, checked |-> <<>>,
     endElapsed |-> <<>>, endFrame |-> ZeroFrame, result |-> 1, sendStatus |-> 1]

\* response_buffer == NULL, or a buffer of cap bytes holding fill; len is
\* *response_length, -1 while nothing has been stored in it; overrun holds
\* the bytes stored past the end of the buffer
NoBuffer == [hasBuf |-> FALSE, buf |-> <<>>, len |-> -1, overrun |-> <<>>]
Buffer(cap, fill) ==
    [hasBuf |-> TRUE, buf |-> [i \in 1..cap |-> fill], len |-> -1, overrun |-> <<>>]

NoLoop == [start_time |-> <<0, 0>>, frameId |-> 0]

\* the codec harness at rest, for the device specifications
CodecAbsent ==
    /\ cStage = "off"
    /\ cType = 0
    /\ cData = <<>>
    /\ cWrites = <<>>
    /\ cWire = <<>>
    /\ cFlip = <<>>
    /\ cFault = [phase |-> 0, mode |-> "full"]
    /\ cRes = RxResult(1, ZeroFrame, <<>>, 0)

\* the device at rest, for the codec specifications
DeviceAbsent ==
    /\ inited = FALSE
    /\ frameIdCntr = 0
    /\ tx_status_received = FALSE
    /\ delivery_status = 0
    /\ callbacks = {}
    /\ vtable = {}
    /\ rxq = <<>>
    /\ now = <<0, 0>>
    /\ pc = "off"
    /\ call = NoCall
    /\ at = AtIdle
    /\ resp = NoBuffer
    /\ loop = NoLoop
    /\ txLog = <<>>
    /\ cbLog = <<>>
    /\ hLog = <<>>
    /\ calls = 0
    /\ traffic = 0

\* ========================================================= the codec harness

CodecTypes == {0, XBEE_API_TYPE_LR_JOIN_REQUEST, START_DELIMITER, 255}
PayloadBytes == {0, 1, 255}
StreamBytes == {START_DELIMITER, 0, 1, 254, 255}

RECURSIVE SeqsUpTo(_, _)
SeqsUpTo(S, n) ==
    IF n = 0 THEN {<<>>}
    ELSE LET shorter == SeqsUpTo(S, n - 1)
         IN  shorter \cup {Append(s, b) : s \in {t \in shorter : Len(t) = n - 1}, b \in S}

Payloads == SeqsUpTo(PayloadBytes, MaxLen)
RawStreams == SeqsUpTo(StreamBytes, MaxStream)

\* payload lengths around the end of api_send_frame's 256-byte buffer:
\* 4 + len + 1 bytes are stored, so 251 is the last length that fits
EdgeLens == {251, 252, 255}
EdgePayloads == {[i \in 1..n |-> b] : n \in EdgeLens, b \in {1, 255}}

NoResult == RxResult(1, ZeroFrame, <<>>, 0)

CodecInputInit(payloads) ==
    /\ cStage = "input"
    /\ cType \in CodecTypes
    /\ cData \in payloads
    /\ cWrites = <<>>
    /\ cWire = <<>>
    /\ cFlip = <<>>
    /\ cFault = NoFault
    /\ cRes = NoResult
    /\ DeviceAbsent

CodecRawInit ==
    /\ cStage = "raw"
    /\ cType = 0
    /\ cData = <<>>
    /\ cWrites = <<>>
    /\ cWire \in RawStreams
    /\ cFlip = <<>>
    /\ cFault = NoFault
    /\ cRes = NoResult
    /\ DeviceAbsent

\* api_send_frame(self, cType, cData, Len(cData)); the transport takes what
\* is written and the written bytes are what the decoder will be offered
CodecSend ==
    /\ cStage = "input"
    /\ \E o \in SendFrameOutcomes(cType, cData) :
          /\ cStage' = IF o.kind = "abort" THEN "aborted" ELSE "sent"
          /\ cWrites' = o.writes
          /\ cWire' = IF o.writes = <<>> THEN <<>> ELSE o.writes[1]
    /\ UNCHANGED <<cType, cData, cFlip, cFault, cRes, devVars>>

\* one bit of the type byte or of a payload byte is inverted on the wire
CodecDamage ==
    /\ cStage = "sent"
    /\ \E i \in 4..(Len(cWire) - 1), k \in 0..7 :
          /\ cWire' = [cWire EXCEPT ![i] = FlipBit(cWire[i], k)]
          /\ cFlip' = <<i, k>>
    /\ cStage' = "damaged"
    /\ UNCHANGED <<cType, cData, cWrites, cFault, cRes, devVars>>

\* api_receive_api_frame(self, &frame) on the offered bytes
CodecReceive ==
    /\ cStage \in {"sent", "damaged", "raw"}
    /\ \E fault \in ReadFaults :
          /\ cFault' = fault
          /\ cRes' = api_receive_api_frame(cWire, fault)
    /\ cStage' = "decoded"
    /\ UNCHANGED <<cType, cData, cWrites, cWire, cFlip, devVars>>

CodecInit == CodecInputInit(Payloads) \/ CodecRawInit
CodecNext == CodecSend \/ CodecDamage \/ CodecReceive
CodecSpec == CodecInit /\ [][CodecNext]_vars

EdgeInit == CodecInputInit(EdgePayloads)
EdgeNext == CodecSend \/ CodecReceive
EdgeSpec == EdgeInit /\ [][EdgeNext]_vars

\* ==================================================== claims about the codec

\* C1 (as claimed): round trip.  For every frame type t and payload p with
\* len(p) <= XBEE_MAX_FRAME_DATA_SIZE - 1, the bytes api_send_frame(t, p)
\* writes, fed to api_receive_api_frame over a transport that delivers them
\* all, give success with frame.type = t, frame.length = len(p) + 1 and the
\* bytes after the type byte equal to p.
C1_RoundTrip ==
    /\ cStage # "aborted"
    /\ (cStage = "decoded" /\ cWrites # <<>> /\ cFlip = <<>> /\ cFault = NoFault)
          => /\ cRes.status = RX_OK
             /\ cRes.frame.type = cType
             /\ cRes.frame.length = Len(cData) + 1
             /\ Len(cRes.frame.data) = Len(cData) + 1
             /\ Tail(cRes.frame.data) = cData

\* the wire format of a frame, written from its description: 0x7E, the
\* big-endian 16-bit count of type byte plus payload, the type, the payload,
\* and 0xFF minus the 8-bit sum of type and payload
WireFormat(t, p) ==
    <<126, ((Len(p) + 1) \div 256) % 256, (Len(p) + 1) % 256, t>> \o p
        \o <<255 - ((t + SumSeq(p)) % 256)>>

\* C2: api_send_frame(type, data, len) hands the transport, in one single
\* write, exactly the frame in wire format; a join request (type 0x14) with
\* frame id 1 is written as 7E 00 02 14 01 EA.
C2_SendWritesWireFormat ==
    /\ cStage = "sent" => cWrites # <<>>
    /\ cWrites # <<>> =>
          /\ Len(cWrites) = 1
          /\ cWrites[1] = WireFormat(cType, cData)
          /\ (cType = 20 /\ cData = <<1>>) => cWrites[1] = <<126, 0, 2, 20, 1, 234>>

C2_Witness == cStage = "sent" /\ cType = 20 /\ cData = <<1>>

\* The phase at which a decode of stream w has to end, read off the stream
\* and the transport's behaviour alone.
Announced(w) == w[2] * 256 + w[3]

DecodeOutcome(w, f) ==
    IF Len(w) < 1 \/ ModeAt(f, 1) = "error" THEN RX_ERR_START_TIMEOUT
    ELSE IF w[1] # 126 THEN RX_ERR_BAD_DELIMITER
    ELSE IF Len(w) < 3 \/ ModeAt(f, 2) = "error" THEN RX_ERR_LENGTH
    ELSE IF Announced(w) > 256 THEN RX_ERR_TOO_LARGE
    ELSE IF Len(w) < 3 + Announced(w) \/ ModeAt(f, 3) = "error" THEN RX_ERR_DATA
    ELSE IF Len(w) < 4 + Announced(w) \/ ModeAt(f, 4) = "error"
         THEN RX_ERR_CHECKSUM_READ
    ELSE IF (SumRange(w, 4, 3 + Announced(w)) + w[4 + Announced(w)]) % 256 # 255
         THEN RX_ERR_BAD_CHECKSUM
    ELSE RX_OK

\* C3: api_receive_api_frame returns success only when the first byte read is
\* 0x7E, both length bytes are read, the length is at most
\* XBEE_MAX_FRAME_DATA_SIZE, exactly `length` body bytes and the checksum
\* byte are read and the checksum verifies, the frame then holding the body
\* with type = body[0]; every failure returns the error of the phase that
\* failed, the seven errors are distinct from each other and from success,
\* and the delimiter timeout (no traffic at all) is none of the others.
C3_DecodeStatusPerPhase ==
    /\ Cardinality({RX_OK, RX_ERR_START_TIMEOUT, RX_ERR_BAD_DELIMITER, RX_ERR_LENGTH,
                    RX_ERR_TOO_LARGE, RX_ERR_DATA, RX_ERR_CHECKSUM_READ,
                    RX_ERR_BAD_CHECKSUM}) = 8
    /\ cStage = "decoded" =>
          /\ cRes.status = DecodeOutcome(cWire, cFault)
          /\ cRes.status = RX_OK =>
                /\ cRes.frame.length = Announced(cWire)
                /\ cRes.frame.data = SubSeq(cWire, 4, 3 + Announced(cWire))
                /\ cRes.frame.type = (IF Announced(cWire) > 0 THEN cWire[4] ELSE 0)
                /\ cRes.consumed = 4 + Announced(cWire)
          /\ cRes.status = RX_ERR_START_TIMEOUT => cRes.consumed = 0

C3_Witness ==
    /\ cStage = "decoded" /\ cWrites = <<>>
    /\ cRes.status = RX_OK /\ cRes.frame.length = 0 /\ cFault.mode = "short"

\* C4: checksum sensitivity.  For every frame api_send_frame produced, with
\* one bit of the type byte or of a payload byte inverted and the checksum
\* byte left as it is, api_receive_api_frame never returns success, and
\* returns the checksum error when the transport delivers every byte.
C4_BitFlipDetected ==
    (cStage = "decoded" /\ cFlip # <<>>) =>
        /\ cRes.status # RX_OK
        /\ cFault = NoFault => cRes.status = RX_ERR_BAD_CHECKSUM

C4_Witness ==
    /\ cStage = "decoded" /\ cFlip = <<4, 7>> /\ cFault = NoFault
    /\ cData # <<>> /\ cRes.status = RX_ERR_BAD_CHECKSUM

\* C5: oversize rejection.  When the two length bytes announce a length
\* above XBEE_MAX_FRAME_DATA_SIZE, api_receive_api_frame returns the oversize
\* error, has consumed exactly the delimiter and the two length bytes, and
\* has stored no byte in frame.data.
C5_OversizeRejected ==
    ( /\ cStage = "decoded"
      /\ Len(cWire) >= 3 /\ cWire[1] = 126 /\ Announced(cWire) > 256
      /\ ModeAt(cFault, 1) # "error" /\ ModeAt(cFault, 2) # "error" ) =>
        /\ cRes.status = RX_ERR_TOO_LARGE
        /\ cRes.consumed = 3
        /\ cRes.rest = Drop(cWire, 3)
        /\ cRes.frame.data = <<>>
        /\ cRes.frame.length = 0

C5_Witness ==
    /\ cStage = "decoded" /\ cRes.status = RX_ERR_TOO_LARGE
    /\ Len(cWire) = 4 /\ cRes.rest = <<cWire[4]>>

\* ================================================================ the device

\* ------------------------------------------------------------------ bounds

\* API calls the application makes in one run of Spec
MaxCalls == 1
\* chunks the module sends in one run of Spec
MaxTraffic == 2
\* the 5000 ms timeout XBeeLR_Connected passes, the 500 ms and 10 ms delays
\* of the Connect and SendData loops, scaled down to a few ticks
WrapperTimeoutMs == 1
ConnectPollMs == 1
SendPollMs == 1
\* the timeouts of the Connect and SendData loops, scaled down
CONNECTION_TIMEOUT_MS == 2
SEND_DATA_TIMEOUT_MS == 2

\* uint8_t frame_data[128] of XBeeLR_SendData
TX_FRAME_DATA_SIZE == 128

\* ------------------------------------------------------------------ inputs

\* the time, in ms, one decode attempt (with its dispatch) may take
ReadTimes == {0, 1}
\* the time, in ms, one XBeeLR_Process may take in the loop of SendData: up
\* to the whole send timeout
ProcessTimes == 0..SEND_DATA_TIMEOUT_MS
\* the timeout_ms the application passes to the correlator
AppTimeouts == {0, 1}

\* values the fields XBeeLR_Create leaves unset may hold
UninitBytes == {0, 165}
UninitStatus == {[tx_status_received |-> FALSE, delivery_status |-> 0],
                 [tx_status_received |-> TRUE, delivery_status |-> 165]}

\* PortMillis() when the instance is created: just started, and one tick
\* before the 32-bit count wraps
ClockStarts == {<<0, 0>>, <<65535, 65535>>}

\* "37D56A3F6CDCF0A5"
AppEuiText == <<51, 55, 68, 53, 54, 65, 51, 70, 54, 67, 68, 67, 70, 48, 65, 53>>

\* the commands the application sends in Spec, and in WrapSpec
AtRequests == {[command |-> "AT_JS", parameter |-> <<>>]}
AtRequestsWrap ==
    {[command |-> "AT_JS", parameter |-> <<>>],
     [command |-> "AT_AE", parameter |-> AppEuiText]}

\* response buffers the application passes: none, or 3 bytes holding 0xAA
AppBuffers == {NoBuffer, Buffer(3, 170)}

\* packets the application sends
TxPackets ==
    {[port |-> 2, ack |-> 0, payload |-> <<>>],
     [port |-> 9, ack |-> 3, payload |-> <<192, 255>>]}

\* a frame as the module puts it on the wire; body is type byte and data
ModuleFrame(body) ==
    <<126, Len(body) \div 256, Len(body) % 256>> \o body
        \o <<255 - (SumSeq(body) % 256)>>

\* what the module may send in one piece
TrafficChunks ==
    {ModuleFrame(<<136, 1, 74, 83, 0>>),          \* AT response, status 0, no value
     ModuleFrame(<<136, 1, 68, 69, 0, 0, 19>>),   \* AT response, status 0, value 00 13
     ModuleFrame(<<136, 1, 65, 69, 2, 85>>),      \* AT response, status 2, one more byte
     ModuleFrame(<<137, 1, 0>>)}                  \* TX status, delivered

\* -------------------------------------------------------------- the module

\* the module sends a chunk, which waits in the transport's receive buffer;
\* chunks that no call is left to read are not sent
ModuleSendsOf(chunks, maxCalls, maxTraffic) ==
    /\ inited
    /\ pc \in {"at_wait", "connect_loop", "send_wait"} \/ (pc = "idle" /\ calls < maxCalls)
    /\ traffic < maxTraffic
    /\ \E chunk \in chunks : rxq' = rxq \o chunk
    /\ traffic' = traffic + 1
    /\ UNCHANGED <<codecVars, inited, frameIdCntr, tx_status_received, delivery_status,
                   callbacks, vtable, now, pc, call, at, resp, loop, txLog, cbLog, hLog, calls>>

ModuleSends == ModuleSendsOf(TrafficChunks, MaxCalls, MaxTraffic)

\* the read faults tried on the device: none, the delimiter read failing, the
\* body read failing
DeviceFaults == {NoFault, [phase |-> 1, mode |-> "error"], [phase |-> 3, mode |-> "error"]}

\* ------------------------------------------------------------------ helpers

\* the entries the writes of outcome o add to txLog
Logged(o, cntr, wok) ==
    [i \in 1..Len(o.writes) |->
        [bytes |-> o.writes[i], ok |-> wok, idBefore |-> cntr, idAfter |-> o.cntr]]

\* the device fields api_handle_frame reads
Dev == [tx_status_received |-> tx_status_received,
        delivery_status |-> delivery_status, callbacks |-> callbacks,
        vtable |-> vtable]

\* no frame was dispatched
NotHandled == [tx_status_received |-> tx_status_received,
               delivery_status |-> delivery_status, called |-> <<>>,
               dispatched |-> <<>>]

\* one api_receive_api_frame followed, on success, by api_handle_frame:
\* the body of XBeeLR_Process
ProcessOnce_never(r) == NotHandled

ProcessOnce_ignores_status(r) == api_handle_frame(Dev, r.frame)

ProcessOnce(r) == IF r.status = RX_OK THEN api_handle_frame(Dev, r.frame) ELSE NotHandled

\* ----------------------------------------------------------- the correlator

\* *response_length = frame.length - 5, stored in a uint8_t
ResponseLength_counts_status(length) == U8(length - 4)

ResponseLength(length) == U8(length - 5)

\* the test of the command status frame.data[4] that lets the value be copied
CopiesValue_any_status(status) == TRUE

CopiesValue(status) == status = 0

\* what the decoded AT response does to *response_length and response_buffer:
\* memcpy(response_buffer, &frame.data[5], *response_length) when the status
\* is 0, the buffer is not NULL and the length is not 0; the bytes that do not
\* fit the buffer are stored past its end
StoreResponse(r, frame) ==
    LET n     == ResponseLength(frame.length)
        value == DataBytes(frame, 5, n)
        cap   == Len(r.buf)
    IN  IF CopiesValue(DataAt(frame, 4)) /\ r.hasBuf /\ n # 0
        THEN [r EXCEPT !.len = n,
                       !.buf = [i \in 1..cap |-> IF i <= n THEN value[i] ELSE r.buf[i]],
                       !.overrun = SubSeq(value, cap + 1, n)]
        ELSE [r EXCEPT !.len = n]

\* what the wait loop does with the decode result r, elapsed being
\* PortMillis() - start_time after the decode: the value it returns, or 1
\* when it goes round again
WaitVerdict_checks_id(r, elapsed, timeout_ms) ==
    IF r.status = RX_OK /\ r.frame.type = XBEE_API_TYPE_AT_RESPONSE
       /\ DataAt(r.frame, 1) = at.idAtStart
    THEN IF DataAt(r.frame, 4) = 0 THEN API_SEND_SUCCESS ELSE API_SEND_AT_CMD_ERROR
    ELSE IF TimedOut(elapsed, timeout_ms) THEN API_SEND_AT_CMD_RESONSE_TIMEOUT
    ELSE 1

WaitVerdict(r, elapsed, timeout_ms) ==
    IF r.status = RX_OK /\ r.frame.type = XBEE_API_TYPE_AT_RESPONSE
    THEN IF DataAt(r.frame, 4) = 0 THEN API_SEND_SUCCESS ELSE API_SEND_AT_CMD_ERROR
    ELSE IF TimedOut(elapsed, timeout_ms) THEN API_SEND_AT_CMD_RESONSE_TIMEOUT
    ELSE 1

\* api_send_at_command_and_get_response up to its wait loop: the command is
\* sent (the result of the send is not looked at), start_time is read.
\* log is the txLog so far, t is PortMillis() at the call.
AtBegin(caller, command, parameter, timeout_ms, buffer, log, t) ==
    \E wok \in BOOLEAN :
      \E o \in api_send_at_command(frameIdCntr, command, PassedParameter(parameter), wok) :
        /\ frameIdCntr' = o.cntr
        /\ txLog' = log \o Logged(o, frameIdCntr, wok)
        /\ resp' = buffer
        /\ now' = t
        /\ IF o.kind = "abort"
           THEN /\ pc' = "crashed"
                /\ at' = [AtIdle EXCEPT !.state = "stopped", !.caller = caller,
                                        !.command = command, !.parameter = parameter,
                                        !.idAtStart = frameIdCntr]
           ELSE /\ pc' = "at_wait"
                /\ at' = [AtIdle EXCEPT !.state = "waiting", !.caller = caller,
                                        !.command = command, !.parameter = parameter,
                                        !.timeout_ms = timeout_ms, !.start_time = t,
                                        !.idAtStart = frameIdCntr,
                                        !.sendStatus = o.ret]

\* the application calls api_send_at_command_and_get_response
AtCall(requests, timeouts, buffers, clocks) ==
    /\ pc = "idle" /\ inited
    /\ \E q \in requests, timeout_ms \in timeouts, buffer \in buffers, t \in clocks :
          AtBegin("app", q.command, q.parameter, timeout_ms, buffer, <<>>, t)
    /\ call' = Pending("at")
    /\ cbLog' = <<>>
    /\ hLog' = <<>>
    /\ loop' = NoLoop
    /\ UNCHANGED <<codecVars, inited, tx_status_received, delivery_status, callbacks, vtable,
                   rxq, traffic>>

\* XBeeLR_Connected after its correlator call returned: `return response`,
\* a uint8_t returned as bool.  Bytes stored past the one-byte response land
\* among the locals of XBeeLR_Connected: it may return either value or abort.
ConnectedOutcomes_any_value(r) ==
    IF r.overrun # <<>> THEN {"true", "false", "abort"}
    ELSE IF r.len > 0 THEN {"true"} ELSE {"false"}

ConnectedOutcomes(r) ==
    IF r.overrun # <<>> THEN {"true", "false", "abort"}
    ELSE IF r.buf[1] # 0 THEN {"true"} ELSE {"false"}

\* `return status;` of XBeeLR_SetAppEUI, XBeeLR_SetAppKey and
\* XBeeLR_SetNwkKey: the int status of the correlator converted to bool
SetReturn(status) == IF status # 0 THEN 1 ELSE 0

\* the return of XBeeLR_GetDevEUI after its correlator call
GetDevEUIReturn(status) == IF status # API_SEND_SUCCESS THEN 0 ELSE 1

\* the return of the correlator to its caller at time t, and the caller's
\* code up to its next wait.  Bytes stored past a wrapper's local response
\* array may stop the wrapper.
AtReturn(result, r, t) ==
    CASE at.caller = "app" ->
           /\ call' = Returned("at", result)
           /\ pc' \in (IF r.overrun # <<>> THEN {"idle", "crashed"} ELSE {"idle"})
           /\ now' = t
      [] at.caller = "connected" ->
           \E c \in ConnectedOutcomes(r) :
             CASE c = "true"  -> call' = Returned("connect", 1) /\ pc' = "idle" /\ now' = t
               [] c = "false" -> /\ call' = call
                                 /\ pc' = "connect_loop"
                                 /\ now' = AddMs(t, ConnectPollMs)
               [] OTHER       -> call' = call /\ pc' = "crashed" /\ now' = t
      [] at.caller = "probe" ->
           \E c \in ConnectedOutcomes(r) :
             /\ now' = t
             /\ CASE c = "true"  -> call' = Returned("connected", 1) /\ pc' = "idle"
                  [] c = "false" -> call' = Returned("connected", 0) /\ pc' = "idle"
                  [] OTHER       -> call' = call /\ pc' = "crashed"
      [] at.caller = "set" ->
           /\ now' = t
           /\ \/ call' = Returned(call.op, SetReturn(result)) /\ pc' = "idle"
              \/ r.overrun # <<>> /\ call' = call /\ pc' = "crashed"
      [] OTHER ->
           /\ now' = t
           /\ call' = Returned(call.op, GetDevEUIReturn(result))
           /\ pc' \in (IF r.overrun # <<>> THEN {"idle", "crashed"} ELSE {"idle"})

\* one turn of the wait loop of api_send_at_command_and_get_response: a decode
\* attempt, then the return on an AT response, or the dispatch of any other
\* frame, the timeout test and PortDelay(1)
AtWaitStep ==
    /\ pc = "at_wait"
    /\ \E fault \in DeviceFaults, dt \in ReadTimes :
       \E r \in {api_receive_api_frame(rxq, fault)} :
         LET t1      == AddMs(now, dt)
             elapsed == ElapsedMs(t1, at.start_time)
             verdict == WaitVerdict(r, elapsed, at.timeout_ms)
             isResp  == verdict \in {API_SEND_SUCCESS, API_SEND_AT_CMD_ERROR}
             h       == IF isResp THEN NotHandled ELSE ProcessOnce(r)
             r2      == IF isResp THEN StoreResponse(resp, r.frame) ELSE resp
         IN  /\ rxq' = r.rest
             /\ tx_status_received' = h.tx_status_received
             /\ delivery_status' = h.delivery_status
             /\ cbLog' = cbLog \o h.called
             /\ hLog' = hLog \o h.dispatched
             /\ resp' = r2
             /\ at' = [at EXCEPT !.state = IF verdict = 1 THEN "waiting" ELSE "done",
                                 !.checked = IF isResp THEN @ ELSE elapsed,
                                 !.endElapsed = IF verdict = 1 THEN <<>> ELSE elapsed,
                                 !.endFrame = IF isResp THEN r.frame ELSE ZeroFrame,
                                 !.result = verdict]
             /\ IF verdict = 1
                THEN now' = AddMs(t1, 1) /\ pc' = "at_wait" /\ call' = call
                ELSE AtReturn(verdict, r2, t1)
    /\ UNCHANGED <<codecVars, inited, frameIdCntr, callbacks, vtable, loop, txLog, calls, traffic>>

\* -------------------------------------------------------------- the device

\* XBee_Init: frameIdCntr = 1, then the variant's init, which reports what
\* PortUartInit reports
XBee_Init ==
    /\ pc = "idle"
    /\ inited' = TRUE
    /\ frameIdCntr' = 1
    /\ \E opened \in {0, 1} : call' = Returned("init", opened)
    /\ txLog' = <<>>
    /\ cbLog' = <<>>
    /\ hLog' = <<>>
    /\ at' = AtIdle
    /\ resp' = NoBuffer
    /\ UNCHANGED <<codecVars, tx_status_received, delivery_status, callbacks, vtable, rxq, now,
                   pc, loop, traffic>>

\* XBee_Process -> XBeeLR_Process: one decode attempt and its dispatch
XBee_Process ==
    /\ pc = "idle" /\ inited
    /\ \E fault \in DeviceFaults :
       \E r \in {api_receive_api_frame(rxq, fault)} :
         LET h == ProcessOnce(r)
         IN  /\ rxq' = r.rest
             /\ tx_status_received' = h.tx_status_received
             /\ delivery_status' = h.delivery_status
             /\ cbLog' = h.called
             /\ hLog' = h.dispatched
    /\ call' = Returned("process", 0)
    /\ txLog' = <<>>
    /\ at' = AtIdle
    /\ resp' = NoBuffer
    /\ UNCHANGED <<codecVars, inited, frameIdCntr, callbacks, vtable, now, pc, loop, traffic>>

\* XBee_Connect -> XBeeLR_Connect up to its loop: SendJoinReqApiFrame (the
\* frame id is the only data byte, the result of the send is not looked at),
\* then start_time
XBee_Connect(clocks) ==
    /\ pc = "idle" /\ inited
    /\ \E wok \in BOOLEAN, t \in clocks :
         \E o \in api_send_frame(frameIdCntr, XBEE_API_TYPE_LR_JOIN_REQUEST,
                                 <<frameIdCntr>>, wok) :
           /\ frameIdCntr' = o.cntr
           /\ txLog' = Logged(o, frameIdCntr, wok)
           /\ now' = t
           /\ loop' = [start_time |-> t, frameId |-> 0]
    /\ pc' = "connect_loop"
    /\ call' = Pending("connect")
    /\ at' = AtIdle
    /\ resp' = NoBuffer
    /\ cbLog' = <<>>
    /\ hLog' = <<>>
    /\ UNCHANGED <<codecVars, inited, tx_status_received, delivery_status, callbacks, vtable,
                   rxq, traffic>>

\* the loop test of XBeeLR_Connect on PortMillis() - start_time
ConnectLoopRuns_once(elapsed) == elapsed = <<0, 0>>

ConnectLoopRuns(elapsed) == LessThanMs(elapsed, CONNECTION_TIMEOUT_MS)

\* the loop test of XBeeLR_Connect: XBeeLR_Connected sends AT_JS with a
\* one-byte response set to 0, or the loop ends and Connect returns false
ConnectLoopStep ==
    /\ pc = "connect_loop"
    /\ IF ConnectLoopRuns(ElapsedMs(now, loop.start_time))
       THEN /\ AtBegin("connected", "AT_JS", <<>>, WrapperTimeoutMs, Buffer(1, 0),
                       txLog, now)
            /\ call' = call
       ELSE /\ call' = Returned("connect", 0)
            /\ pc' = "idle"
            /\ UNCHANGED <<frameIdCntr, txLog, resp, now, at>>
    /\ UNCHANGED <<codecVars, inited, tx_status_received, delivery_status, callbacks, vtable,
                   rxq, loop, cbLog, hLog, calls, traffic>>

\* XBee_Connected -> XBeeLR_Connected called by the application: AT_JS with a
\* one-byte response set to 0
XBee_Connected(clocks) ==
    /\ pc = "idle" /\ inited
    /\ \E t \in clocks :
         AtBegin("probe", "AT_JS", <<>>, WrapperTimeoutMs, Buffer(1, 0), <<>>, t)
    /\ call' = Pending("connected")
    /\ cbLog' = <<>>
    /\ hLog' = <<>>
    /\ loop' = NoLoop
    /\ UNCHANGED <<codecVars, inited, tx_status_received, delivery_status, callbacks,
                   vtable, rxq, traffic>>

\* uint8_t response[17] of XBeeLR_SetAppEUI, response[33] of XBeeLR_SetAppKey
\* and XBeeLR_SetNwkKey
SetResponseSize(command) == IF command = "AT_AE" THEN 17 ELSE 33

\* XBeeLR_SetAppEUI, XBeeLR_SetAppKey, XBeeLR_SetNwkKey (command AT_AE, AT_AK,
\* AT_NK) with the string value: the correlator call with a local response
\* array that is not initialised
XBeeLR_Set(commands, values, clocks) ==
    /\ pc = "idle" /\ inited
    /\ \E command \in commands, value \in values, t \in clocks, fill \in UninitBytes :
         /\ AtBegin("set", command, value, WrapperTimeoutMs,
                    Buffer(SetResponseSize(command), fill), <<>>, t)
         /\ call' = Pending(command)
    /\ cbLog' = <<>>
    /\ hLog' = <<>>
    /\ loop' = NoLoop
    /\ UNCHANGED <<codecVars, inited, tx_status_received, delivery_status, callbacks,
                   vtable, rxq, traffic>>

\* XBee_WriteConfig and XBee_ApplyChanges: AT_WR and AT_AC without a
\* parameter, a local response[33], `return status;` like the setters
XBee_WriteConfig(clocks) == XBeeLR_Set({"AT_WR"}, {<<>>}, clocks)

XBee_ApplyChanges(clocks) == XBeeLR_Set({"AT_AC"}, {<<>>}, clocks)

\* the size test of XBeeLR_GetDevEUI
GetDevEUIRejects_below_16(buffer_size) == buffer_size < 16

GetDevEUIRejects(buffer_size) == buffer_size < 17

\* XBeeLR_GetDevEUI(self, response_buffer, buffer_size) on a buffer of
\* buffer_size bytes holding fill: false at once for a small buffer, else the
\* buffer is zeroed and AT_DE is sent through the correlator
XBeeLR_GetDevEUI(sizes, fills, clocks) ==
    /\ pc = "idle" /\ inited
    /\ \E buffer_size \in sizes, fill \in fills, t \in clocks :
         IF GetDevEUIRejects(buffer_size)
         THEN /\ call' = Returned("getdeveui", 0)
              /\ resp' = Buffer(buffer_size, fill)
              /\ at' = AtIdle
              /\ txLog' = <<>>
              /\ UNCHANGED <<frameIdCntr, now, pc>>
         ELSE /\ AtBegin("getdeveui", "AT_DE", <<>>, WrapperTimeoutMs,
                         Buffer(buffer_size, 0), <<>>, t)
              /\ call' = Pending("getdeveui")
    /\ cbLog' = <<>>
    /\ hLog' = <<>>
    /\ loop' = NoLoop
    /\ UNCHANGED <<codecVars, inited, tx_status_received, delivery_status, callbacks,
                   vtable, rxq, traffic>>

\* XBee_Disconnect -> XBeeLR_Disconnect: `return true;`
XBee_Disconnect ==
    /\ pc = "idle" /\ inited
    /\ call' = Returned("disconnect", 1)
    /\ txLog' = <<>>
    /\ cbLog' = <<>>
    /\ hLog' = <<>>
    /\ at' = AtIdle
    /\ resp' = NoBuffer
    /\ loop' = NoLoop
    /\ UNCHANGED <<codecVars, inited, frameIdCntr, tx_status_received, delivery_status,
                   callbacks, vtable, rxq, now, pc, traffic>>

\* frame_data of XBeeLR_SendData: frame id, port, ack & 0x01, payload
TxFrameData_raw_ack(cntr, pkt) == <<cntr, pkt.port, pkt.ack>> \o pkt.payload

TxFrameData(cntr, pkt) == <<cntr, pkt.port, pkt.ack % 2>> \o pkt.payload

\* self->tx_status_received = false, after the send and before the loop
LatchAfterSend_kept(latch) == latch

LatchAfterSend(latch) == FALSE

\* the loop test of XBeeLR_SendData on PortMillis() - start_time
SendLoopRuns_inclusive(elapsed) ==
    LessThanMs(elapsed, SEND_DATA_TIMEOUT_MS) \/ elapsed = <<0, SEND_DATA_TIMEOUT_MS>>

SendLoopRuns(elapsed) == LessThanMs(elapsed, SEND_DATA_TIMEOUT_MS)

\* bool XBee_SendData: `return self->vtable->send_data(self, data);`.  The
\* uint8_t status of XBeeLR_SendData comes back through a pointer to a function
\* returning bool and is returned as a bool: the caller sees it reduced to
\* 0 or 1, or its low bit, or (the byte passed on untouched) the status.
\* The call records below hold status, the value XBeeLR_SendData returned.
XBee_SendData_result(status) == {IF status # 0 THEN 1 ELSE 0, status % 2, status}

\* XBee_SendData -> XBeeLR_SendData up to its loop: the packet gets the frame
\* id, frame_data[128] takes id, port, ack & 1 and the payload (stores past
\* the array when the payload is longer than 125 bytes), the frame is sent;
\* a failed send returns false, else start_time is read and the latch cleared
XBee_SendData(packets, clocks) ==
    /\ pc = "idle" /\ inited
    /\ \E pkt \in packets, wok \in BOOLEAN, t \in clocks :
         LET frame_data == TxFrameData(frameIdCntr, pkt)
             sent == api_send_frame(frameIdCntr, XBEE_API_TYPE_LR_TX_REQUEST,
                                    frame_data, wok)
             stopped == {[kind |-> "abort", writes |-> <<>>, cntr |-> frameIdCntr,
                          ret |-> API_SEND_SUCCESS]}
         IN  \E o \in (IF Len(frame_data) > TX_FRAME_DATA_SIZE
                       THEN sent \cup stopped ELSE sent) :
               /\ frameIdCntr' = o.cntr
               /\ txLog' = Logged(o, frameIdCntr, wok)
               /\ now' = t
               /\ loop' = [start_time |-> t, frameId |-> frameIdCntr]
               /\ IF o.kind = "abort"
                  THEN /\ pc' = "crashed"
                       /\ call' = Pending("send")
                       /\ tx_status_received' = tx_status_received
                  ELSE IF o.ret # API_SEND_SUCCESS
                  THEN /\ pc' = "idle"
                       /\ call' = Returned("send", 0)
                       /\ tx_status_received' = tx_status_received
                  ELSE /\ pc' = "send_wait"
                       /\ call' = Pending("send")
                       /\ tx_status_received' = LatchAfterSend(tx_status_received)
    /\ at' = AtIdle
    /\ resp' = NoBuffer
    /\ cbLog' = <<>>
    /\ hLog' = <<>>
    /\ UNCHANGED <<codecVars, inited, delivery_status, callbacks, vtable, rxq, traffic>>

\* one turn of the loop of XBeeLR_SendData: the loop test, XBeeLR_Process, the
\* test of the latch, port_delay(10); after the loop, 0xFF
SendWaitStep ==
    /\ pc = "send_wait"
    /\ IF SendLoopRuns(ElapsedMs(now, loop.start_time))
       THEN \E fault \in DeviceFaults, dt \in ProcessTimes :
            \E r \in {api_receive_api_frame(rxq, fault)} :
              LET h == ProcessOnce(r)
              IN  /\ rxq' = r.rest
                  /\ tx_status_received' = h.tx_status_received
                  /\ delivery_status' = h.delivery_status
                  /\ cbLog' = cbLog \o h.called
                  /\ hLog' = hLog \o h.dispatched
                  /\ IF h.tx_status_received
                     THEN /\ call' = Returned("send", h.delivery_status)
                          /\ pc' = "idle"
                          /\ now' = AddMs(now, dt)
                     ELSE /\ call' = call
                          /\ pc' = "send_wait"
                          /\ now' = AddMs(AddMs(now, dt), SendPollMs)
       ELSE /\ call' = Returned("send", 255)
            /\ pc' = "idle"
            /\ UNCHANGED <<rxq, tx_status_received, delivery_status, cbLog, hLog, now>>
    /\ UNCHANGED <<codecVars, inited, frameIdCntr, callbacks, vtable, at, resp, loop, txLog,
                   calls, traffic>>

\* ------------------------------------------------------- the specifications

\* After XBeeLR_Create with the callbacks cbs registered: the tables are
\* set, the other fields of the instance hold whatever malloc returned.
InitWith(cbs) ==
    /\ CodecAbsent
    /\ inited = FALSE
    /\ frameIdCntr \in UninitBytes
    /\ \E u \in UninitStatus : /\ tx_status_received = u.tx_status_received
                               /\ delivery_status = u.delivery_status
    /\ callbacks = cbs
    /\ vtable = VariantHandlers
    /\ rxq = <<>>
    /\ now \in ClockStarts
    /\ pc = "idle"
    /\ call = NoCall
    /\ at = AtIdle
    /\ resp = NoBuffer
    /\ loop = NoLoop
    /\ txLog = <<>>
    /\ cbLog = <<>>
    /\ hLog = <<>>
    /\ calls = 0
    /\ traffic = 0

Init == \E cbs \in {{}, {"receive", "send"}} : InitWith(cbs)

\* the application makes one more of its API calls
Counted == calls < MaxCalls /\ calls' = calls + 1

Next ==
    \/ ~inited /\ XBee_Init /\ UNCHANGED calls
    \/ inited /\ XBee_Init /\ Counted
    \/ XBee_Process /\ Counted
    \/ AtCall(AtRequests, AppTimeouts, AppBuffers, {now}) /\ Counted
    \/ ModuleSends
    \/ AtWaitStep

Spec == Init /\ [][Next]_vars

\* every sender, the module silent, the calls not counted; a call begins
\* when the clock shows one of ClockStarts again
WrapNext ==
    \/ XBee_Init /\ UNCHANGED calls
    \/ AtCall(AtRequestsWrap, {0}, {NoBuffer}, ClockStarts) /\ UNCHANGED calls
    \/ XBee_Connect(ClockStarts) /\ UNCHANGED calls
    \/ XBee_SendData(TxPackets, ClockStarts) /\ UNCHANGED calls
    \/ AtWaitStep
    \/ ConnectLoopStep
    \/ SendWaitStep

WrapSpec == InitWith({"receive", "send"}) /\ [][WrapNext]_vars

\* --------------------------------------------------------- the device in use

\* what the module may send in one piece while the application uses the link
LinkChunks ==
    {ModuleFrame(<<136, 1, 74, 83, 0, 1>>),   \* AT response to JS, id 1: joined
     ModuleFrame(<<137, 1, 34>>),             \* TX status, id 1, status 0x22
     ModuleFrame(<<208, 5, 1, 2>>),           \* RX packet, port 5, payload 01 02
     ModuleFrame(<<138, 0>>)}                 \* modem status

\* the packet the application sends
LinkPacket == [port |-> 9, ack |-> 3, payload |-> <<192, 255>>]

\* the application makes one more of its API calls, one more than in Spec
LinkCounted == calls < MaxCalls + 1 /\ calls' = calls + 1

\* every operation of the device, the module sending what it likes
LinkNext ==
    \/ ~inited /\ XBee_Init /\ UNCHANGED calls
    \/ XBee_Process /\ LinkCounted
    \/ AtCall(AtRequests, AppTimeouts, {NoBuffer}, {now}) /\ LinkCounted
    \/ XBee_Connect({now}) /\ LinkCounted
    \/ XBee_SendData({LinkPacket}, {now}) /\ LinkCounted
    \/ ModuleSendsOf(LinkChunks, MaxCalls + 1, MaxTraffic)
    \/ AtWaitStep
    \/ ConnectLoopStep
    \/ SendWaitStep

\* both callbacks registered, the clock one tick before it wraps
LinkInit == InitWith({"receive", "send"}) /\ now = <<65535, 65535>>

LinkSpec == LinkInit /\ [][LinkNext]_vars

\* ------------------------------------------------------- the dispatch harness

\* type byte and data of the frames handed to the dispatcher
DispatchBodies ==
    {<<136, 1, 74, 83, 0>>,                            \* AT response
     <<138, 0>>,                                       \* modem status
     <<137, 7, 34>>,                                   \* TX status, id 7, status 0x22
     <<137>>,                                          \* TX status, type byte only
     <<208, 5, 1, 2>>,                                 \* RX packet, port 5, payload 01 02
     <<208, 5>>,                                       \* RX packet, no payload
     <<208>>,                                          \* RX packet, type byte only
     <<209, 5, 200, 9, 3, 128, 0, 1, 2, 77, 78>>,      \* explicit RX, counter 0x80000102
     <<209, 5, 200, 9, 3, 0, 0, 0, 1>>,                \* explicit RX, no payload
     <<209, 5, 200, 9, 3>>,                            \* explicit RX, cut after dr
     <<139, 1>>,                                       \* a type the library does not know
     <<8, 1, 74, 83>>,                                 \* an AT command, a type it sends
     <<>>}                                             \* a frame of length 0

\* an initialised device with one frame waiting in the transport, any subset
\* of the variant handlers and of the callbacks set
DispatchInit ==
    /\ CodecAbsent
    /\ inited = TRUE
    /\ frameIdCntr = 1
    /\ \E u \in UninitStatus : /\ tx_status_received = u.tx_status_received
                               /\ delivery_status = u.delivery_status
    /\ callbacks \in SUBSET {"receive", "send"}
    /\ vtable \in SUBSET VariantHandlers
    /\ rxq \in {ModuleFrame(body) : body \in DispatchBodies}
    /\ now = <<0, 0>>
    /\ pc = "idle"
    /\ call = NoCall
    /\ at = AtIdle
    /\ resp = NoBuffer
    /\ loop = NoLoop
    /\ txLog = <<>>
    /\ cbLog = <<>>
    /\ hLog = <<>>
    /\ calls = 0
    /\ traffic = 0

\* the one call the application makes: Process, or SendData and its wait
DispatchNext ==
    \/ XBee_Process /\ calls = 0 /\ calls' = 1
    \/ XBee_SendData({[port |-> 2, ack |-> 0, payload |-> <<>>]}, {now})
          /\ calls = 0 /\ calls' = 1
    \/ SendWaitStep

DispatchSpec == DispatchInit /\ [][DispatchNext]_vars

\* ------------------------------------------------------ the LoRaWAN wrappers

\* what the module may answer to the wrappers: values of at most one byte
ProbeChunks ==
    {ModuleFrame(<<136, 1, 74, 83, 0, 1>>),   \* AT response, status 0, value 1: joined
     ModuleFrame(<<136, 1, 74, 83, 0, 0>>),   \* AT response, status 0, value 0: not joined
     ModuleFrame(<<136, 1, 74, 83, 1>>),      \* AT response, status 1: error
     ModuleFrame(<<136, 1, 65, 69, 0>>)}      \* AT response, status 0, no value

\* buffer sizes passed to XBeeLR_GetDevEUI: one short, the least accepted
DevEuiSizes == {16, 17}

\* Connect and Connected, the module answering
ProbeNext ==
    \/ ~inited /\ XBee_Init /\ UNCHANGED calls
    \/ XBee_Connect({now}) /\ LinkCounted
    \/ XBee_Connected({now}) /\ LinkCounted
    \/ ModuleSendsOf(ProbeChunks, MaxCalls + 1, MaxTraffic)
    \/ AtWaitStep
    \/ ConnectLoopStep

\* no callback registered, the clock at 0
ProbeInit == InitWith({}) /\ now = <<0, 0>>

ProbeSpec == ProbeInit /\ [][ProbeNext]_vars

\* the three setters and GetDevEUI, the module answering
SetNext ==
    \/ ~inited /\ XBee_Init /\ UNCHANGED calls
    \/ XBeeLR_Set({"AT_AE", "AT_AK", "AT_NK"}, {AppEuiText}, {now}) /\ Counted
    \/ XBeeLR_GetDevEUI(DevEuiSizes, {170}, {now}) /\ Counted
    \/ ModuleSendsOf(ProbeChunks, MaxCalls, MaxTraffic)
    \/ AtWaitStep

SetSpec == ProbeInit /\ [][SetNext]_vars

\* ------------------------------------------------------ the senders in use

\* the identifiers at_command_t declares
AtCommands ==
    {"AT_", "AT_CN", "AT_AP", "AT_BD", "AT_WR", "AT_RE", "AT_VR", "AT_AC",
     "AT_NR", "AT_DE", "AT_AK", "AT_AE", "AT_NK", "AT_JS", "AT_FQ", "AT_PW"}

\* n bytes '1'
Ones(n) == [i \in 1..n |-> 49]

\* parameter lengths around the limits: 3 + 125 fills frame_data[128], 126
\* passes the test of param_length > 128, 129 does not, 256 and 300 do not
\* fit the uint8_t the correlator keeps the length in
ParamLens == {125, 126, 129, 256, 300}

\* every declared command without a parameter, and AT_AE with the parameters
SenderRequests ==
    {[command |-> c, parameter |-> <<>>] : c \in AtCommands}
       \cup {[command |-> "AT_AE", parameter |-> Ones(n)] : n \in ParamLens}

\* payload sizes around the limits: 3 + 125 fills frame_data[128] of
\* XBeeLR_SendData, 126 does not fit it, 255 is the largest payloadSize
SenderPackets ==
    {[port |-> 2, ack |-> 1, payload |-> Ones(n)] : n \in {125, 126, 255}}

\* the application sends commands and packets, the module is silent
SenderNext ==
    \/ ~inited /\ XBee_Init /\ UNCHANGED calls
    \/ AtCall(SenderRequests, {0}, {NoBuffer}, {now}) /\ LinkCounted
    \/ XBee_SendData(SenderPackets, {now}) /\ LinkCounted
    \/ AtWaitStep
    \/ SendWaitStep

SenderSpec == ProbeInit /\ [][SenderNext]_vars

\* ------------------------------------------------------ the blocking calls

\* what the module may send while a call blocks
LiveChunks ==
    {ModuleFrame(<<136, 1, 74, 83, 0, 1>>),       \* AT response, status 0, value 01
     ModuleFrame(<<136, 1, 68, 69, 0, 0, 19>>),   \* AT response, status 0, value 00 13
     ModuleFrame(<<137, 1, 0>>),                  \* TX status, delivered
     ModuleFrame(<<208, 5, 1, 2>>)}               \* RX packet

\* the three blocking calls, the module sending what it likes
LiveNext ==
    \/ ~inited /\ XBee_Init /\ UNCHANGED calls
    \/ AtCall(AtRequests, AppTimeouts, {NoBuffer}, {now}) /\ Counted
    \/ XBee_Connect({now}) /\ Counted
    \/ XBee_SendData({LinkPacket}, {now}) /\ Counted
    \/ ModuleSendsOf(LiveChunks, MaxCalls, MaxTraffic)
    \/ AtWaitStep
    \/ ConnectLoopStep
    \/ SendWaitStep

\* a call that has begun goes on running: every transport read returns and
\* every delay ends, so the next turn of each wait loop is taken
LiveSpec ==
    /\ LinkInit
    /\ [][LiveNext]_vars
    /\ WF_vars(AtWaitStep)
    /\ WF_vars(ConnectLoopStep)
    /\ WF_vars(SendWaitStep)

\* ------------------------------------------------- a garbled byte stream

\* what arrives in one piece on a noisy line: bytes that are no delimiter,
\* frames the decoder rejects, and good frames
ResyncChunks ==
    {<<0>>,                                   \* one garbage byte
     <<19, 20>>,                              \* two garbage bytes
     <<126, 1, 1>>,                           \* delimiter and a length of 257
     <<126, 0, 2, 138, 0, 0>>,                \* modem status with a wrong checksum
     ModuleFrame(<<136, 1, 74, 83, 0, 1>>),   \* AT response
     ModuleFrame(<<208, 5, 1, 2>>)}           \* RX packet

\* the application makes one more of its API calls, two more than in Spec
ResyncCounted == calls < MaxCalls + 2 /\ calls' = calls + 1

\* Process and the correlator on the noisy line
ResyncNext ==
    \/ ~inited /\ XBee_Init /\ UNCHANGED calls
    \/ XBee_Process /\ ResyncCounted
    \/ AtCall(AtRequests, {1}, {NoBuffer}, {now}) /\ ResyncCounted
    \/ ModuleSendsOf(ResyncChunks, MaxCalls + 2, MaxTraffic)
    \/ AtWaitStep

ResyncSpec == LinkInit /\ [][ResyncNext]_vars

\* ------------------------------------------------------------- a session

\* the module has joined and is asked for its join status: what it answers
\* as long as nothing tells it to leave the network
SessionChunks == {ModuleFrame(<<136, 1, 74, 83, 0, 1>>)}

\* the application connects, disconnects after a successful Connect, and
\* then asks whether it is connected
SessionNext ==
    \/ ~inited /\ XBee_Init /\ UNCHANGED calls
    \/ XBee_Connect({now}) /\ calls = 0 /\ calls' = 1
    \/ XBee_Disconnect /\ calls = 1 /\ call = Returned("connect", 1) /\ calls' = 2
    \/ XBee_Connected({now}) /\ calls = 2 /\ calls' = 3
    \/ ModuleSendsOf(SessionChunks, MaxCalls + 2, MaxTraffic + 1)
    \/ AtWaitStep
    \/ ConnectLoopStep

SessionSpec == ProbeInit /\ [][SessionNext]_vars

\* ------------------------------------------------- responses of any length

\* AT responses the decoder accepts: shorter than the 5-byte header, with a
\* value of 2 bytes, and with a value of 16 bytes
AnyLengthChunks ==
    {ModuleFrame(<<136>>),                           \* length 1
     ModuleFrame(<<136, 1, 74, 83>>),                \* length 4, no status byte
     ModuleFrame(<<136, 1, 74, 83, 0, 0, 19>>),      \* value 00 13
     ModuleFrame(<<136, 1, 68, 69, 0>> \o AppEuiText)}

\* every wrapper with a response buffer of its own, and GetDevEUI
AnyLengthNext ==
    \/ ~inited /\ XBee_Init /\ UNCHANGED calls
    \/ XBee_Connected({now}) /\ Counted
    \/ XBeeLR_Set({"AT_AE", "AT_AK", "AT_NK"}, {AppEuiText}, {now}) /\ Counted
    \/ XBee_WriteConfig({now}) /\ Counted
    \/ XBee_ApplyChanges({now}) /\ Counted
    \/ XBeeLR_GetDevEUI({17}, {170}, {now}) /\ Counted
    \/ ModuleSendsOf(AnyLengthChunks, MaxCalls, MaxTraffic)
    \/ AtWaitStep

AnyLengthSpec == ProbeInit /\ [][AnyLengthNext]_vars

\* =================================================== claims about the device

\* the frame id a logged write carries: the first byte after the type
FrameIdOf(e) == e.bytes[5]

\* C6: frame id never zero.  XBee_Init sets the frame id counter to 1; after
\* any sequence of sends (join requests, AT commands, data sends, those whose
\* transport write fails included) the counter is in 1..255, each send moves
\* it on by one with 255 followed by 1, and the frame id written into every
\* frame is the counter's value before the send, never 0.
C6_FrameIdNeverZero ==
    /\ inited => frameIdCntr \in 1..255
    /\ (call.op = "init" /\ call.done) => frameIdCntr = 1
    /\ inited =>
          \A i \in 1..Len(txLog) :
             /\ FrameIdOf(txLog[i]) \in 1..255
             /\ FrameIdOf(txLog[i]) = txLog[i].idBefore
             /\ txLog[i].idAfter =
                   (IF txLog[i].idBefore = 255 THEN 1 ELSE txLog[i].idBefore + 1)
             /\ (IF i < Len(txLog) THEN txLog[i + 1].idBefore ELSE frameIdCntr)
                   = txLog[i].idAfter

C6_Witness ==
    /\ inited /\ frameIdCntr = 1 /\ txLog # <<>>
    /\ txLog[Len(txLog)].idBefore = 255
    /\ ~txLog[Len(txLog)].ok

\* the two characters of a command's name, as the module expects them
MnemonicOf(command) == IF command = "AT_AE" THEN <<65, 69>> ELSE <<74, 83>>

\* C7: api_send_at_command builds the body [frame_id][c0][c1][parameter] of
\* a type 0x08 frame, frame_id being the counter's value when the call began,
\* and the counter is advanced exactly once per command sent; for
\* SetAppEUI("37D56A3F6CDCF0A5") the frame carries 'A','E' and the 16 ASCII
\* bytes of the parameter.
C7_AtCommandFrame ==
    (at.state # "none" /\ txLog # <<>>) =>
        LET e == txLog[Len(txLog)]
        IN  /\ e.bytes = WireFormat(8, <<at.idAtStart>> \o MnemonicOf(at.command)
                                          \o at.parameter)
            /\ e.idBefore = at.idAtStart
            /\ frameIdCntr = (IF at.idAtStart = 255 THEN 1 ELSE at.idAtStart + 1)
            /\ at.caller = "app" => Len(txLog) = 1
            /\ (at.command = "AT_AE" /\ at.parameter = AppEuiText) =>
                  /\ Len(e.bytes) = 24
                  /\ SubSeq(e.bytes, 4, 7) = <<8, at.idAtStart, 65, 69>>
                  /\ SubSeq(e.bytes, 8, 23) =
                        <<51, 55, 68, 53, 54, 65, 51, 70, 54, 67, 68, 67, 70, 48, 65, 53>>

C7_Witness ==
    /\ at.state = "waiting" /\ at.command = "AT_AE" /\ at.parameter = AppEuiText
    /\ at.idAtStart = 255 /\ Len(txLog) = 1

\* the wait of the correlator ended with an AT response frame
EndedByResponse == at.state = "done" /\ at.endFrame.type = 136

\* the response buffer as the caller passed it
Untouched(r) == r.overrun = <<>> /\ \A i \in 1..Len(r.buf) : r.buf[i] = 170

\* C8: when the wait ends with an AT response whose status byte is 0,
\* api_send_at_command_and_get_response returns API_SEND_SUCCESS, sets
\* *response_length to frame.length - 5 and copies exactly the value bytes
\* data[5..length) to the start of response_buffer; with no value bytes
\* *response_length is 0 and the buffer is left as it was.
C8_SuccessCopiesValue ==
    (EndedByResponse /\ at.endFrame.length >= 5 /\ at.endFrame.data[5] = 0) =>
        LET n     == at.endFrame.length - 5
            value == SubSeq(at.endFrame.data, 6, at.endFrame.length)
        IN  /\ at.result = 0
            /\ call = Returned("at", 0)
            /\ resp.len = n
            /\ (resp.hasBuf /\ n > 0) =>
                  /\ n <= Len(resp.buf)
                  /\ SubSeq(resp.buf, 1, n) = value
                  /\ \A i \in (n + 1)..Len(resp.buf) : resp.buf[i] = 170
                  /\ resp.overrun = <<>>
            /\ (~resp.hasBuf \/ n = 0) => Untouched(resp)
            /\ n = 0 => resp.len = 0

C8_Witness ==
    /\ EndedByResponse /\ at.result = 0
    /\ resp.hasBuf /\ resp.len = 2 /\ resp.buf = <<0, 19, 170>>

\* C9: when the wait ends with an AT response whose status byte is not 0, the
\* call returns API_SEND_AT_CMD_ERROR, has written nothing to response_buffer
\* and has not sent the command again: the transport saw one write.
C9_ErrorStatusNoCopyNoRetry ==
    (EndedByResponse /\ at.endFrame.length >= 5 /\ at.endFrame.data[5] # 0) =>
        /\ at.result = -5
        /\ call = Returned("at", -5)
        /\ Untouched(resp)
        /\ Len(txLog) = 1

C9_Witness ==
    /\ EndedByResponse /\ at.result = -5 /\ resp.hasBuf
    /\ resp.len = 1 /\ at.endFrame.data[6] = 85

\* C10 (as claimed): if no AT response frame is decoded before timeout_ms has
\* elapsed on the transport clock, counted from just after the command was
\* written, the call returns API_SEND_AT_CMD_RESONSE_TIMEOUT, a result that
\* is neither success nor the AT command error; decode failures never end the
\* wait early.
C10_TimeoutUnlessResponseInTime ==
    /\ -6 \notin {0, -5}
    /\ at.state = "done" =>
          /\ (at.result # -6) <=>
                (EndedByResponse /\ LessThanMs(at.endElapsed, at.timeout_ms))
          /\ ~EndedByResponse => AtLeastMs(at.endElapsed, at.timeout_ms)

\* C10 (amended): the call returns API_SEND_AT_CMD_RESONSE_TIMEOUT exactly
\* when a decode attempt that gave no AT response frame ends with timeout_ms
\* or more elapsed since just after the command was written; until then the
\* wait goes on whatever the decode attempts return, and an AT response
\* decoded by an attempt that ends at or after timeout_ms (the first attempt
\* when timeout_ms is 0) still ends the call with success or the AT command
\* error.  The timeout result is neither of those two.
C10_TimeoutOnlyAfterDeadline ==
    /\ -6 \notin {0, -5}
    /\ at.state = "done" =>
          /\ (at.result = -6) <=> ~EndedByResponse
          /\ ~EndedByResponse => AtLeastMs(at.endElapsed, at.timeout_ms)
          /\ EndedByResponse => at.result \in {0, -5}
    /\ (at.state = "waiting" /\ at.checked # <<>>) =>
          LessThanMs(at.checked, at.timeout_ms)

C10_Witness ==
    /\ at.state = "done" /\ at.result = -6 /\ at.timeout_ms > 0 /\ traffic > 0

\* ============================================== claims about the dispatcher

\* the frame at the head of the transport, as a decode without a read fault
\* returns it
HeadFrame == api_receive_api_frame(rxq, NoFault)

\* this step decoded the frame at the head of the transport
DecodedHead == HeadFrame.status = RX_OK /\ rxq' = HeadFrame.rest

\* this step is a call of Process
ProcessStep == calls' = calls + 1 /\ call'.op = "process"

\* the handler the routing table names for a frame type on this device
RoutedTo(type) ==
    IF type = 136 THEN "xbee_handle_at_response"
    ELSE IF type = 138 THEN "xbee_handle_modem_status"
    ELSE IF type = 137 /\ "handle_transmit_status_frame" \in vtable
    THEN "handle_transmit_status_frame"
    ELSE IF type \in {208, 209} /\ "handle_rx_packet_frame" \in vtable
    THEN "handle_rx_packet_frame"
    ELSE "none"

\* C17: api_handle_frame routes by frame.type: 0x88 to the AT-response
\* handler, 0x8A to the modem-status handler, 0x89 to the variant's
\* transmit-status handler, 0xD0 and 0xD1 to the variant's receive-packet
\* handler; any other type calls no handler, changes no device state and is
\* not an error; a variant handler that is unset is skipped silently.
C17_RoutesByType ==
    [][ProcessStep /\ DecodedHead =>
          LET f == HeadFrame.frame
          IN  /\ hLog' = <<[type |-> f.type, handler |-> RoutedTo(f.type)]>>
              /\ pc' = "idle"
              /\ call' = Returned("process", 0)
              /\ RoutedTo(f.type) = "none" =>
                    /\ cbLog' = <<>>
                    /\ txLog' = <<>>
                    /\ UNCHANGED <<inited, frameIdCntr, tx_status_received,
                                   delivery_status, callbacks, vtable, now>>]_vars

\* a TX-status frame met a device without the transmit-status handler: no
\* handler ran, the latch stayed clear
C17_Witness ==
    /\ call = Returned("process", 0)
    /\ vtable = {"handle_rx_packet_frame"}
    /\ hLog = <<[type |-> 137, handler |-> "none"]>>
    /\ ~tx_status_received
    /\ cbLog = <<>>

\* C18: on a TX-status frame the handler stores data[2] as the device's last
\* delivery status, sets the pending-status latch, and invokes the send
\* callback once with frameId = data[1] and status = data[2]; when the send
\* callback is unset the status is still stored and the latch still set, so
\* a blocked SendData still completes.
C18_TxStatusHandler ==
    [][DecodedHead /\ HeadFrame.frame.type = 137
         /\ "handle_transmit_status_frame" \in vtable =>
          LET f == HeadFrame.frame
              told == IF "send" \in callbacks
                      THEN <<[cb |-> "send", frameId |-> DataAt(f, 1),
                              status |-> DataAt(f, 2)]>>
                      ELSE <<>>
          IN  /\ delivery_status' = DataAt(f, 2)
              /\ tx_status_received'
              /\ cbLog' = told
              /\ pc = "send_wait" =>
                    pc' = "idle" /\ call' = Returned("send", DataAt(f, 2))]_vars

\* SendData returned the status of a TX-status frame on a device without a
\* send callback
C18_Witness ==
    /\ callbacks = {"receive"}
    /\ call = Returned("send", 34)
    /\ tx_status_received
    /\ delivery_status = 34
    /\ cbLog = <<>>

\* C19: on an RX-packet frame the handler invokes the receive callback
\* exactly once, synchronously, with port = data[1]; for the explicit type
\* 0xD1 also rssi = data[2], snr = data[3], dr = data[4], counter =
\* big-endian 32-bit value of data[5..8] and payload = data[9..length); for
\* type 0xD0 payload = data[2..length) and rssi, snr, dr, counter are 0.
C19_RxPacketHandler ==
    [][DecodedHead /\ HeadFrame.frame.type \in {208, 209}
         /\ "handle_rx_packet_frame" \in vtable /\ "receive" \in callbacks =>
          LET f == HeadFrame.frame
              explicit == f.type = 209
              payload == SubSeq(f.data, IF explicit THEN 10 ELSE 3, f.length)
          IN  /\ Len(cbLog') = 1
              /\ cbLog'[1].cb = "receive"
              /\ cbLog'[1].port = DataAt(f, 1)
              /\ cbLog'[1].rssi = (IF explicit THEN DataAt(f, 2) ELSE 0)
              /\ cbLog'[1].snr = (IF explicit THEN DataAt(f, 3) ELSE 0)
              /\ cbLog'[1].dr = (IF explicit THEN DataAt(f, 4) ELSE 0)
              /\ cbLog'[1].counter =
                    (IF explicit
                     THEN <<DataAt(f, 5) * 256 + DataAt(f, 6),
                            DataAt(f, 7) * 256 + DataAt(f, 8)>>
                     ELSE <<0, 0>>)
              /\ cbLog'[1].payloadSize = Len(payload)
              /\ cbLog'[1].payload = payload]_vars

\* ============================================ claims about the device in use

\* the entries of a log of api_handle_frame calls that are RX packets, the
\* entries of a log of callbacks that are receive callbacks
RxDispatches(log) == SelectSeq(log, LAMBDA e : e.type \in {208, 209})
ReceiveCalls(log) == SelectSeq(log, LAMBDA e : e.cb = "receive")

\* C11: dispatch while waiting.  Every valid non-AT-response frame decoded
\* while api_send_at_command_and_get_response waits is handed to
\* api_handle_frame exactly once; in particular, if an RX-packet frame arrives
\* before the AT response, the receive callback fires exactly once with that
\* packet's data before the call returns the AT response.
C11_DispatchWhileWaiting ==
    /\ [](Len(ReceiveCalls(cbLog)) = Len(RxDispatches(hLog)))
    /\ [][pc = "at_wait" =>
            LET f == HeadFrame.frame
            IN  IF DecodedHead /\ f.type # 136
                THEN /\ hLog' = Append(hLog, [type |-> f.type, handler |-> RoutedTo(f.type)])
                     /\ at'.endFrame.type # 136
                     /\ IF f.type \in {208, 209}
                        THEN /\ Len(cbLog') = Len(cbLog) + 1
                             /\ SubSeq(cbLog', 1, Len(cbLog)) = cbLog
                             /\ cbLog'[Len(cbLog')].cb = "receive"
                             /\ cbLog'[Len(cbLog')].port = DataAt(f, 1)
                             /\ cbLog'[Len(cbLog')].payload =
                                   SubSeq(f.data, IF f.type = 209 THEN 10 ELSE 3, f.length)
                        ELSE ReceiveCalls(cbLog') = ReceiveCalls(cbLog)
                ELSE hLog' = hLog /\ cbLog' = cbLog]_vars

\* an RX packet came before the AT response: one dispatch, one receive
\* callback with its payload, then the call returned success
C11_Witness ==
    /\ call = Returned("at", 0)
    /\ EndedByResponse
    /\ hLog = <<[type |-> 208, handler |-> "handle_rx_packet_frame"]>>
    /\ Len(cbLog) = 1
    /\ cbLog[1].port = 5
    /\ cbLog[1].payload = <<1, 2>>

\* C12: the correlator matches a response by frame type alone:
\* api_send_at_command_and_get_response completes on the first frame of type
\* AT-response (0x88) decoded after the command is written, whatever frame
\* id and mnemonic that frame carries, so a late response to an earlier
\* timed-out command is taken as the response of the next command.
C12_MatchesByTypeAlone ==
    [][pc = "at_wait" /\ DecodedHead /\ HeadFrame.frame.type = 136 =>
          /\ at'.state = "done"
          /\ at'.endFrame = HeadFrame.frame
          /\ at'.result = (IF DataAt(HeadFrame.frame, 4) = 0 THEN 0 ELSE -5)
          /\ hLog' = hLog
          /\ pc' # "at_wait"]_vars

\* the second call, whose command went out with frame id 2, returned success
\* on the response that carries frame id 1
C12_Witness ==
    /\ calls = 2
    /\ call = Returned("at", 0)
    /\ at.idAtStart = 2
    /\ EndedByResponse
    /\ DataAt(at.endFrame, 1) = 1

\* the call in progress or last returned is a SendData whose frame went out
SendDataSent == call.op = "send" /\ Len(txLog) = 1 /\ txLog[1].ok

\* PortMillis() - start_time of the SendData loop
SendElapsed == ElapsedMs(now, loop.start_time)

\* a TX-status frame has been dispatched since the API call began
TxStatusDispatched == \E i \in 1..Len(hLog) : hLog[i].type = 137

\* C13: XBeeLR_SendData writes one frame of type 0x50 whose body is
\* [frame_id][port][ack & 1][payload bytes], stores that frame_id in
\* packet.frameId, and, when a TX-status frame is dispatched before
\* SEND_DATA_TIMEOUT_MS elapses, returns the status byte of that TX-status
\* frame.
C13_SendDataFrameAndStatus ==
    /\ [](call.op = "send" /\ pc # "crashed" =>
            /\ Len(txLog) = 1
            /\ txLog[1].bytes =
                  WireFormat(80, <<txLog[1].idBefore, LinkPacket.port,
                                   LinkPacket.ack % 2>> \o LinkPacket.payload)
            /\ loop.frameId = txLog[1].idBefore)
    /\ [][pc = "send_wait" /\ DecodedHead /\ HeadFrame.frame.type = 137 =>
            /\ call' = Returned("send", DataAt(HeadFrame.frame, 2))
            /\ pc' = "idle"]_vars

\* the data frame went out and the call returned the status byte 0x22 of the
\* TX-status frame dispatched in its wait
C13_Witness ==
    /\ SendDataSent
    /\ call = Returned("send", 34)
    /\ TxStatusDispatched
    /\ LessThanMs(SendElapsed, SEND_DATA_TIMEOUT_MS)

\* C14 as stated: if no TX-status frame is dispatched within
\* SEND_DATA_TIMEOUT_MS after the data frame is written, XBeeLR_SendData
\* returns the sentinel 0xFF and the pending-status latch is false when it
\* returns.  (A call that a TX-status frame ended leaves the clock at the
\* time of that dispatch; a dispatch at exactly SEND_DATA_TIMEOUT_MS counts
\* as within it.)
C14_TimeoutUnlessStatusInTime ==
    SendDataSent /\ call.done =>
        IF TxStatusDispatched /\ LessThanMs(SendElapsed, SEND_DATA_TIMEOUT_MS + 1)
        THEN TRUE
        ELSE call.value = 255 /\ ~tx_status_received

\* C14: send timeout.  XBeeLR_SendData returns the sentinel 0xFF, with the
\* latch false, exactly when its loop test finds SEND_DATA_TIMEOUT_MS or more
\* elapsed since the data frame was written and no TX-status frame has been
\* dispatched in the wait; the test runs before each Process, so a TX-status
\* frame dispatched by a Process that began before the deadline ends the
\* call with its status even when the dispatch comes after the deadline.
C14_TimeoutWhenLoopTestFails ==
    /\ [](SendDataSent /\ call.done /\ ~TxStatusDispatched =>
            /\ call.value = 255
            /\ ~tx_status_received
            /\ AtLeastMs(SendElapsed, SEND_DATA_TIMEOUT_MS))
    /\ [][pc = "send_wait" /\ traffic' = traffic =>
            IF AtLeastMs(SendElapsed, SEND_DATA_TIMEOUT_MS)
            THEN /\ call' = Returned("send", 255)
                 /\ ~tx_status_received'
                 /\ rxq' = rxq /\ hLog' = hLog
            ELSE call'.done => DecodedHead /\ HeadFrame.frame.type = 137]_vars

\* the call timed out with frames of the module still unread
C14_Witness ==
    /\ SendDataSent
    /\ call = Returned("send", 255)
    /\ ~TxStatusDispatched
    /\ ~tx_status_received
    /\ rxq # <<>>

\* C15: no stale status.  A TX-status frame dispatched before a call to
\* XBeeLR_SendData begins (during an earlier Process, an earlier SendData, or
\* a correlator wait) never makes that call return; the latch is cleared for
\* each send before the wait loop reads it, so only a TX-status frame
\* dispatched during the call's own wait can end it.
C15_NoStaleStatus ==
    /\ pc = "send_wait" => ~tx_status_received /\ ~TxStatusDispatched
    /\ SendDataSent /\ call.done /\ LessThanMs(SendElapsed, SEND_DATA_TIMEOUT_MS) =>
          /\ hLog # <<>>
          /\ hLog[Len(hLog)].type = 137
          /\ call.value = delivery_status

\* the latch was set with status 0x22 before the call began; the call waited
\* all the same and timed out
C15_Witness ==
    /\ SendDataSent
    /\ call = Returned("send", 255)
    /\ delivery_status = 34
    /\ ~TxStatusDispatched

\* a TX-status frame was dispatched in this step
TxStatusStep ==
    /\ DecodedHead
    /\ HeadFrame.frame.type = 137
    /\ hLog' # <<>>
    /\ hLog'[Len(hLog')] = [type |-> 137, handler |-> "handle_transmit_status_frame"]

\* C16: single writer of the latch.  In every execution tx_status_received
\* changes from false to true only in the TX-status handler (on dispatch of
\* a frame of type 0x89) and changes to false only in XBeeLR_SendData; no
\* other operation (Init, Connect, Connected, Process on other frame types,
\* AT wrappers) writes the latch or the stored delivery status.
C16_SingleWriterOfLatch ==
    [][/\ ~tx_status_received /\ tx_status_received' => TxStatusStep
       /\ tx_status_received /\ ~tx_status_received' =>
             pc = "idle" /\ call' = Pending("send") /\ pc' = "send_wait"
       /\ delivery_status' # delivery_status => TxStatusStep]_vars

\* Init and Connect have run, the AT response was taken, and the latch and
\* status still hold what the allocation left in them
C16_Witness ==
    /\ inited
    /\ call = Returned("connect", 1)
    /\ tx_status_received
    /\ delivery_status = 165

\* C20: each call of Process performs exactly one decode attempt and
\* dispatches at most one frame; when the decode fails (including the idle
\* case of a timeout on the start delimiter) no handler or callback is
\* invoked, nothing is written to the transport, the frame-id counter, latch
\* and delivery status are unchanged, and no error is reported to the caller.
C20_ProcessOneAttempt ==
    [][ProcessStep =>
          /\ rxq' \in {api_receive_api_frame(rxq, fault).rest : fault \in ReadFaults}
          /\ Len(hLog') <= 1
          /\ Len(hLog') = 1 => DecodedHead
          /\ txLog' = <<>>
          /\ frameIdCntr' = frameIdCntr
          /\ call' = Returned("process", 0)
          /\ pc' = "idle"
          /\ ~DecodedHead =>
                /\ hLog' = <<>>
                /\ cbLog' = <<>>
                /\ UNCHANGED <<tx_status_received, delivery_status>>]_vars

\* a Process whose decode failed while bytes of the module were waiting
C20_Witness ==
    /\ call = Returned("process", 0)
    /\ calls > 0
    /\ rxq # <<>>
    /\ hLog = <<>>
    /\ cbLog = <<>>

\* ================================================ claims about the wrappers

JoinedResponse ==
    /\ at.result = API_SEND_SUCCESS
    /\ at.endFrame.length >= 6
    /\ DataAt(at.endFrame, 5) # 0

\* C22: Connected() is an active probe.  Every call writes one AT JS command
\* and nothing else; it returns true exactly when the AT response received in
\* this call has status 0 and a non-zero value byte, and false when the
\* response reports an error or none arrives before the timeout; the result
\* depends on nothing an earlier call left behind.
C22_ConnectedIsActiveProbe ==
    call.op = "connected" =>
       /\ pc # "crashed"
       /\ Len(txLog) = 1
       /\ txLog[1].bytes = WireFormat(XBEE_API_TYPE_AT_COMMAND,
                                      <<txLog[1].idBefore, 74, 83>>)
       /\ call.done =>
             /\ at.caller = "probe"
             /\ at.result \in {API_SEND_SUCCESS, API_SEND_AT_CMD_ERROR,
                                API_SEND_AT_CMD_RESONSE_TIMEOUT}
             /\ call.value = (IF JoinedResponse THEN 1 ELSE 0)

\* the second call of the application is a probe that found no answer, two
\* frames having come from the module before
C22_Witness ==
    /\ calls = 2
    /\ traffic = 2
    /\ call = Returned("connected", 0)
    /\ at.result = API_SEND_AT_CMD_RESONSE_TIMEOUT

\* C23: XBeeLR_GetDevEUI called with buffer_size < 17 returns false before
\* issuing any command: nothing is written to the transport, nothing is read
\* from it, the frame id counter keeps its value and the caller's buffer
\* keeps its bytes.
C23_SmallBufferRejected ==
    [][(calls' = calls + 1 /\ call'.op = "getdeveui" /\ Len(resp'.buf) < 17) =>
          /\ call' = Returned("getdeveui", 0)
          /\ pc' = "idle"
          /\ txLog' = <<>>
          /\ at' = AtIdle
          /\ rxq' = rxq
          /\ frameIdCntr' = frameIdCntr
          /\ resp'.buf = [i \in 1..Len(resp'.buf) |-> 170]]_vars

\* GetDevEUI returned false for a 16-byte buffer while a frame from the module
\* was waiting in the transport
C23_Witness ==
    /\ call = Returned("getdeveui", 0)
    /\ Len(resp.buf) = 16
    /\ rxq # <<>>
    /\ txLog = <<>>

\* the setters of the LoRaWAN variant, by the command they send
Setters == {"AT_AE", "AT_AK", "AT_NK"}

\* C24: XBeeLR_SetAppEUI, XBeeLR_SetAppKey and XBeeLR_SetNwkKey return true
\* if the module answered the AT command with command status 0, and false on
\* an AT command error or a response timeout.
C24_SetterReturnsSuccess ==
    (call.op \in Setters /\ call.done) =>
       call.value = (IF at.result = API_SEND_SUCCESS THEN 1 ELSE 0)

\* ================================================= claims about the senders

\* C25: the command-to-mnemonic map is exhaustive.  For every identifier
\* declared in at_command_t, at_command_to_string returns a non-null string of
\* exactly two characters.
C25_MapIsExhaustive ==
    (at.state # "none" /\ at.command \in AtCommands) =>
       Len(at_command_to_string(at.command)) = 2

\* the command of the last correlator call has no mnemonic
Unmapped == at.state # "none" /\ at_command_to_string(at.command) = <<>>

\* C26: an unmapped command identifier is signaled, not defaulted.
\* api_send_at_command called with a command that has no mnemonic returns
\* API_SEND_ERROR_INVALID_COMMAND, reads no mnemonic bytes from the missing
\* mapping (it goes on to its return, and no frame built from such bytes is
\* written), writes nothing to the transport and leaves the frame id counter
\* unchanged.
C26_UnmappedCommandSignaled ==
    Unmapped =>
       /\ at.state # "stopped"
       /\ at.sendStatus = API_SEND_ERROR_INVALID_COMMAND
       /\ txLog = <<>>
       /\ frameIdCntr = at.idAtStart

\* the data bytes of a logged frame: all but delimiter, length, type, checksum
DataLenOf(e) == Len(e.bytes) - 5

\* C27: oversize payloads are rejected before encoding.  api_send_frame,
\* api_send_at_command and XBeeLR_SendData return a frame-too-large error and
\* write nothing whenever the payload does not fit: no frame written is longer
\* than the 256-byte buffer of api_send_frame, none carries more data than
\* the 128-byte frame_data of its builder, no call stops on a store past its
\* buffer, and an AT command whose header and parameter exceed frame_data is
\* answered with API_SEND_ERROR_FRAME_TOO_LARGE.
C27_OversizeRejected ==
    /\ \A i \in 1..Len(txLog) :
          /\ Len(txLog[i].bytes) <= SEND_FRAME_BUF_SIZE
          /\ DataLenOf(txLog[i]) <= AT_FRAME_DATA_SIZE
    /\ pc = "crashed" => Unmapped
    /\ (at.state # "none" /\ ~Unmapped
          /\ 3 + Len(PassedParameter(at.parameter)) > AT_FRAME_DATA_SIZE) =>
          /\ at.sendStatus = API_SEND_ERROR_FRAME_TOO_LARGE
          /\ txLog = <<>>

\* the parameter of the last correlator call cannot be sent: it does not fit
\* frame_data behind the 3-byte header, or its length does not fit 8 bits
Unbuildable ==
    /\ at.state # "none"
    /\ ~Unmapped
    /\ (Len(at.parameter) > 255 \/ 3 + Len(at.parameter) > AT_FRAME_DATA_SIZE)

\* C28: contract errors are rejected before any I/O in the correlator.  When
\* the command cannot be built, api_send_at_command_and_get_response writes
\* nothing, reads nothing (its wait loop is never entered) and returns an
\* error other than the response timeout; a command that is written carries
\* the whole parameter.
C28_UnbuildableRejectedBeforeIO ==
    /\ Unbuildable =>
          /\ txLog = <<>>
          /\ at.checked = <<>>
          /\ at.state = "done" =>
                at.result \notin {API_SEND_SUCCESS, API_SEND_AT_CMD_RESONSE_TIMEOUT}
    /\ (call.op = "at" /\ ~Unmapped) =>
          \A i \in 1..Len(txLog) :
             txLog[i].bytes =
                WireFormat(XBEE_API_TYPE_AT_COMMAND,
                           <<txLog[i].idBefore>> \o at_command_to_string(at.command)
                              \o at.parameter)

\* =========================================== claims about the blocking calls

AddedTo(log, log2) ==
    IF calls' = calls + 1 THEN log2 ELSE SubSeq(log2, Len(log) + 1, Len(log2))

\* C30: ordering.  Across any interleaving of Process, SendData waits and
\* correlator waits, frames are decoded and handed to handlers and callbacks
\* in the order their bytes arrived: bytes arrive at the tail of the
\* transport's queue and leave from its head only; a step that dispatches a
\* frame dispatches one frame, the one encoded by the bytes at the head of the
\* queue, and removes exactly those bytes, so that no frame overtakes an
\* earlier one and none is dispatched twice.
C30_DispatchInArrivalOrder ==
    [][LET f == HeadFrame.frame
           n == f.length + 4
           handled == AddedTo(hLog, hLog')
           called  == AddedTo(cbLog, cbLog')
       IN  /\ \/ Len(rxq') >= Len(rxq) /\ Take(rxq', Len(rxq)) = rxq
              \/ \E k \in 0..Len(rxq) : rxq' = Drop(rxq, k)
           /\ (handled # <<>> \/ called # <<>>) =>
                 /\ HeadFrame.status = RX_OK
                 /\ Len(rxq) >= n
                 /\ Take(rxq, n) = ModuleFrame(f.data)
                 /\ rxq' = Drop(rxq, n)
                 /\ Len(handled) = 1
                 /\ handled[1].type = f.type
                 /\ called = api_handle_frame(Dev, f).called]_vars

\* two frames that arrived one after the other were dispatched, each with its
\* callback, in one call, and the queue is empty
C30_Witness ==
    /\ traffic = 2
    /\ rxq = <<>>
    /\ Len(hLog) = 2
    /\ hLog[1].type = XBEE_API_TYPE_LR_RX_PACKET
    /\ hLog[2].type = XBEE_API_TYPE_TX_STATUS
    /\ Len(cbLog) = 2
    /\ cbLog[1].cb = "receive"
    /\ cbLog[2].cb = "send"

\* ============================================ claims about a garbled stream

\* the decode errors of a malformed frame: bad delimiter, oversize length,
\* checksum mismatch
MalformedErrors == {RX_ERR_BAD_DELIMITER, RX_ERR_TOO_LARGE, RX_ERR_BAD_CHECKSUM}

\* this step made the decode attempt HeadFrame describes
AttemptedHead == traffic' = traffic /\ rxq # <<>> /\ rxq' = HeadFrame.rest /\ rxq' # rxq

\* C31: after a malformed-frame decode error (bad delimiter, oversize length,
\* checksum mismatch) the receive buffer is flushed before the next decode
\* attempt made by Process or by the correlator's wait loop: the bytes that
\* were pending behind the rejected ones are gone when the attempt returns.
C31_FlushAfterMalformedFrame ==
    [][(AttemptedHead /\ HeadFrame.status \in MalformedErrors) => rxq' = <<>>]_vars

\* C38: resynchronization progress.  Every decode attempt that fails with an
\* invalid delimiter consumes exactly one byte and dispatches nothing, and
\* an attempt that finds a whole valid frame at the head of the stream takes
\* exactly that frame: with n garbage bytes before a valid frame, the frame
\* comes out intact at attempt n + 1.
C38_ResyncOneBytePerAttempt ==
    [][/\ (traffic' = traffic /\ rxq # <<>> /\ rxq[1] # START_DELIMITER /\ rxq' # rxq) =>
            /\ rxq' = Drop(rxq, 1)
            /\ AddedTo(hLog, hLog') = <<>>
            /\ AddedTo(cbLog, cbLog') = <<>>
            /\ at'.result \notin {API_SEND_SUCCESS, API_SEND_AT_CMD_ERROR}
       /\ (AttemptedHead /\ HeadFrame.status = RX_OK) =>
            LET f == HeadFrame.frame
            IN  /\ Take(rxq, f.length + 4) = ModuleFrame(f.data)
                /\ rxq' = Drop(rxq, f.length + 4)
                /\ \/ /\ AddedTo(hLog, hLog') = <<[type |-> f.type,
                                                     handler |-> HandlerFor(f.type)]>>
                      /\ f.type # XBEE_API_TYPE_AT_RESPONSE \/ pc # "at_wait"
                   \/ /\ pc = "at_wait" /\ f.type = XBEE_API_TYPE_AT_RESPONSE
                      /\ at'.endFrame = f]_vars

\* the third Process dispatched the RX packet that arrived behind two
\* garbage bytes
C38_Witness ==
    /\ calls = 3
    /\ traffic = 2
    /\ rxq = <<>>
    /\ call = Returned("process", 0)
    /\ hLog = <<[type |-> XBEE_API_TYPE_LR_RX_PACKET, handler |-> "handle_rx_packet_frame"]>>

\* ================================================ claims about the session

\* C32: Disconnect moves a connected device back to Initialized.  A
\* Disconnect that returns true has told the module to leave the network (it
\* wrote a frame), and a Connected() that follows it, no Connect having
\* succeeded since, returns false.
C32_DisconnectLeavesNetwork ==
    /\ [][(calls' = calls + 1 /\ call' = Returned("disconnect", 1)) =>
              txLog' # <<>>]_vars
    /\ []((calls = 3 /\ call.op = "connected" /\ call.done) => call.value = 0)

\* =========================================== claims about the send results

\* C33: the public XBee_SendData returns a delivery-status code.  The value
\* its caller receives equals the status byte the variant's SendData
\* returned, so that 0x00, the failure statuses and 0xFF can be told apart.
C33_PublicSendDataReturnsStatus ==
    (call.op = "send" /\ call.done) => XBee_SendData_result(call.value) = {call.value}

\* C34: the status XBeeLR_SendData returns is associated with the send that
\* produced it.  The call completes only on a TX-status frame whose frame id
\* equals the id assigned to the packet: a TX-status frame of an earlier send,
\* arriving during a later send's wait, does not end that wait.
C34_StatusOfThisSend ==
    [][(pc = "send_wait" /\ DecodedHead /\ HeadFrame.frame.type = XBEE_API_TYPE_TX_STATUS
          /\ call'.done) =>
          DataAt(HeadFrame.frame, 1) = loop.frameId]_vars

\* C35: XBeeLR_SendData returns 0 (delivery success) only if a TX-status
\* frame with status byte 0 was dispatched during that call; a failed
\* transport write of the data frame or a timeout never yields 0.
C35_ZeroOnlyOnDelivery ==
    (call = Returned("send", 0)) =>
       /\ txLog # <<>>
       /\ txLog[1].ok
       /\ \E i \in 1..Len(cbLog) : cbLog[i].cb = "send" /\ cbLog[i].status = 0

\* ========================================= claims about the response length

\* C36: for every AT-response frame that api_receive_api_frame accepts, the
\* response length the correlator computes as frame.length - 5 does not wrap
\* below zero in 8 bits, and the bytes copied into response_buffer never
\* exceed the capacity of the buffer the caller supplied (1 byte in
\* Connected, 17 in GetDevEUI and SetAppEUI, 33 in the key setters,
\* WriteConfig and ApplyChanges).
C36_ResponseLengthFits ==
    EndedByResponse =>
       /\ resp.len = at.endFrame.length - 5
       /\ resp.overrun = <<>>
       /\ pc # "crashed"

\* the header of an RX-packet frame: type and port, or type, port, rssi, snr,
\* dr and the 4-byte counter
RxHeaderSize(type) == IF type = XBEE_API_TYPE_LR_EXPLICIT_RX_PACKET THEN 9 ELSE 2

\* C37: for every RX-packet frame that api_receive_api_frame accepts, the
\* payloadSize handed to the receive callback equals the number of payload
\* bytes present in the frame after the header (length - 2 for type 0xD0,
\* length - 9 for type 0xD1), does not wrap in 8 bits, and
\* payload[0..payloadSize) lies inside frame.data[0..length).
C37_PayloadSizeInsideFrame ==
    [][(traffic' = traffic /\ DecodedHead
          /\ HeadFrame.frame.type \in {XBEE_API_TYPE_LR_RX_PACKET,
                                       XBEE_API_TYPE_LR_EXPLICIT_RX_PACKET}
          /\ AddedTo(cbLog, cbLog') # <<>>) =>
          LET f   == HeadFrame.frame
              hdr == RxHeaderSize(f.type)
              pkt == AddedTo(cbLog, cbLog')[1]
          IN  /\ f.length >= hdr
              /\ pkt.payloadSize = f.length - hdr
              /\ hdr + pkt.payloadSize <= f.length]_vars

\* ================================================= claims about the clock

\* the milliseconds the clock has ticked from start to t, counted on the
\* clock itself
TicksSince(start, t) == CHOOSE d \in 0..MaxTicks : AddMs(start, d) = t

\* C39: timeouts are computed as (now - start) modulo 2^32.  When the clock
\* wraps from 0xFFFFFFFF to 0 during a correlator, Connect or SendData wait,
\* the wait does not end with a timeout before the configured time has
\* passed, and a loop goes round again only if its test found less than the
\* configured time passed: it continues by no more than one turn.
C39_TimeoutAcrossClockWrap ==
    /\ [](
         /\ (call = Returned("at", API_SEND_AT_CMD_RESONSE_TIMEOUT)) =>
               (TicksSince(at.start_time, now) >= at.timeout_ms)
         /\ (call = Returned("connect", 0)) =>
               (TicksSince(loop.start_time, now) >= CONNECTION_TIMEOUT_MS)
         /\ (SendDataSent /\ call = Returned("send", 255)) =>
               (TicksSince(loop.start_time, now) >= SEND_DATA_TIMEOUT_MS)
       )
    /\ [][
         /\ (pc = "at_wait" /\ traffic' = traffic /\ pc' = "at_wait") =>
               (TicksSince(at.start_time, now') - 1 < at.timeout_ms)
         /\ (pc = "send_wait" /\ traffic' = traffic /\ pc' = "send_wait") =>
               (TicksSince(loop.start_time, now) < SEND_DATA_TIMEOUT_MS)
         /\ (pc = "connect_loop" /\ traffic' = traffic /\ pc' = "at_wait") =>
               (TicksSince(loop.start_time, now) < CONNECTION_TIMEOUT_MS)
       ]_vars

\* a send that began at 0xFFFFFFFF timed out after the clock had wrapped
C39_Witness ==
    /\ SendDataSent
    /\ call = Returned("send", 255)
    /\ loop.start_time = <<65535, 65535>>
    /\ now[1] = 0

\* ================================================= claims about the heap

\* the packets a handler mallocs while it handles one frame
PacketsAllocated(handler) == IF handler \in VariantHandlers THEN 1 ELSE 0

\* the packets a handler frees before it returns
PacketsFreed(handler) == IF handler = "handle_rx_packet_frame" THEN 1 ELSE 0

RECURSIVE OutstandingPackets(_)
OutstandingPackets(log) ==
    IF log = <<>> THEN 0
    ELSE PacketsAllocated(Head(log).handler) - PacketsFreed(Head(log).handler)
         + OutstandingPackets(Tail(log))

\* C40: packet buffers are allocated and released per frame.  After the
\* dispatch of any frame returns, RX packet or TX status, every packet the
\* handler allocated has been released: no handler-allocated packet is
\* outstanding after any sequence of dispatched frames.
C40_NoOutstandingPackets == OutstandingPackets(hLog) = 0

====
